---- MODULE Spec2Model ----
\* Verification model of the concurrency core of gti-stock-analysis-api:
\*   * TaskManager  (src/task_manager.py)  - asynchronous scan tasks
\*   * GTIRateLimiter (src/rate_limiter.py) - adaptive request spacing
\*
\* Python threads interleave between byte codes, so every method that touches
\* shared state outside a `with self.lock:` block is split into one step per
\* shared read or write; a `with self.lock:` block of the task manager is one
\* step (nothing else can run inside it).  Optional values are sequences:
\* <<>> is None and <<x>> is the value x.
EXTENDS Integers, Sequences, FiniteSets, TLC

VARIABLES
    now,        \* task manager: datetime.now(), in minutes
    heap,       \* task manager: every Task object ever built, indexed by task id
    tasks,      \* task manager: keys of self.tasks (the task table)
    queue,      \* task manager: work queue of self.executor (task ids, FIFO)
    wpc,        \* task manager: position of _execute_task(id), per task id
    exc,        \* task manager: exception caught by _execute_task(id), per task id
    q,          \* task manager: the status/result query in flight
    sweep,      \* task manager: the cleanup timer and its callback
    rl,         \* rate limiter: fields of the GTIRateLimiter singleton
    rl_lock,    \* rate limiter: holder of rate_limiter.lock (0 = free)
    rl_clock,   \* rate limiter: time.time(), in milliseconds
    rl_pc,      \* rate limiter: per thread, the method and position it is at
    rl_loc,     \* rate limiter: per thread, locals of the method it runs
    rl_waiting, \* rate limiter: the threads at `with self.lock:` of
                \* wait_if_needed, oldest first, each with whether the lock
                \* was held when it got there
    rc,         \* rate limiter: per thread, the frame of rate_limited_call
    cache,      \* cache: self.cache, the entries in the dict's insertion order
    cache_clock,\* cache: time.time(), in seconds
    cf,         \* cache: per thread, the frame of the cache method it runs
    ms,         \* market scan: the frame of market_scan_parallel
    chunk,      \* market scan: the frame of _process_stock_chunk
    futures,    \* market scan: the future of each item of stock_list, by position
    scan_clock, \* market scan: time.time(), in ticks of TickSeconds
    first       \* market scan: what the caller keeps of an earlier scan of the
                \* same list (None: there was none)

tmVars == <<now, heap, tasks, queue, wpc, exc, q, sweep>>
rlVars == <<rl, rl_lock, rl_clock, rl_pc, rl_loc, rl_waiting>>
callVars == <<rc>>
cacheVars == <<cache, cache_clock, cf>>
scanVars == <<ms, chunk, futures, scan_clock, first>>
vars == <<now, heap, tasks, queue, wpc, exc, q, sweep,
          rl, rl_lock, rl_clock, rl_pc, rl_loc, rl_waiting, rc,
          cache, cache_clock, cf,
          ms, chunk, futures, scan_clock, first>>

\* what the methods of one component leave alone: the other components
notTM == <<rlVars, callVars, cacheVars, scanVars>>
notRL == <<tmVars, callVars, cacheVars, scanVars>>
notCall == <<tmVars, cacheVars, scanVars>>
notCache == <<tmVars, rlVars, callVars, scanVars>>
notScan == <<tmVars, rlVars, callVars, cacheVars>>

None == <<>>
Some(x) == <<x>>

-----------------------------------------------------------------------------
\* Bounds of the model

\* number of create_task calls explored
MaxTasks == 1
\* number of clock advances explored (each of Retention minutes, so that a
\* task is seen at exactly the retention window and past it)
MaxTicks == 2
\* number of threads that call the rate limiter
MaxThreads == 2
\* how far the rate limiter's clock runs, in tenths of a second
RLHorizon == 40
\* number of threads that call rate_limited_call
MaxCallers == 1
\* how far the backoff sleeps of rate_limited_call may take the clock, in
\* tenths of a second
CallHorizon == 200
\* the cache's thresholds, scaled down: cleanup runs above HighWater entries
\* (1000 in the code), the eviction pass above LowWater entries (800) and
\* evicts EvictCount entries (200)
HighWater == 2
LowWater == 1
EvictCount == 1
\* number of clock advances of the cache's clock explored, of a second each
MaxCacheClock == 2
\* hits of one entry up to which further gets of it are explored
MaxHits == 1
\* number of threads that use the cache at once
CacheThreads == 2
\* number of items of the longest stock_list scanned
MaxItems == 3
\* GTIConfig.CHUNK_SIZE_FOR_LARGE_SCANS (20 in the code), scaled down: longer
\* lists are scanned in chunks of ChunkSize items
ChunkSize == 2
\* GTIConfig.MARKET_SCAN_BATCH_SIZE (8 in the code), scaled down: the
\* max_workers of each ThreadPoolExecutor of the scan
PoolWorkers == 2
\* number of clock advances of the scan's clock explored
MaxScanTicks == 6
\* number of clock advances explored where the sweep timer is followed
\* through its periods, of TickMinutes each
MaxSweepTicks == 8
\* number of create_task calls explored where the pool is filled: one more
\* than the pool has threads
MaxPoolTasks == 4
\* calls of create_task explored next to get_stats
MaxStatsTasks == 2
\* tenths of a second during which func may fail and other callers raise the
\* delay, and the horizon of the calls that follow
TroubleTime == 50
DecayHorizon == 800
\* the longest stock list whose time budget is computed
MaxListLen == 200

-----------------------------------------------------------------------------
\* Task manager: constants and types

\* timedelta(hours=1), in minutes
Retention == 60
\* threading.Timer(1800, ...), in minutes
CleanupInterval == 30
\* a pool that has no thread
no_workers == Len(<<>>)

\* ThreadPoolExecutor(max_workers=3)
max_workers == 3

PENDING == "pending"
RUNNING == "running"
COMPLETED == "completed"
FAILED == "failed"
EXPIRED == "expired"
TaskStatus == {PENDING, RUNNING, COMPLETED, FAILED, EXPIRED}

\* the task types _execute_task dispatches on
KnownTypes == {"top_picks", "sector_scan", "category_scan", "custom_scan"}
\* the task types create_task is called with here: one that the dispatch
\* handles and one that no branch of it handles
TypeInputs == {"top_picks", "bogus"}
\* messages of the exceptions a scan function may raise
ScanErrors == {"timeout"}

TaskIds == 1..MaxTasks

\* Task(...) as built by create_task: the dataclass defaults for the rest
NewTask(task_type, created_at) ==
    [task_type |-> task_type,
     status |-> PENDING,
     created_at |-> created_at,
     started_at |-> None,
     completed_at |-> None,
     result |-> None,
     error |-> None,
     progress_message |-> "init"]

IsExpiredLate(current_time, created_at) ==
    current_time - created_at > Retention + CleanupInterval

\* datetime.now() - task.created_at > timedelta(hours=1)
IsExpired(current_time, created_at) == current_time - created_at > Retention

\* f"Unknown task type: {task.task_type}"
UnknownTypeMessage(task_type) == "Unknown task type: " \o task_type

\* the progress message a handler writes before it scans (lines 182, 197, 218
\* and 241; the sector, category or list length it names is not modelled)
HandlerProgress(task_type) == "scanning " \o task_type

\* the dict a handler returns; execution_time is None because completed_at
\* is still None while the handler runs
HandlerResult(task_type) ==
    [task_type |-> task_type, execution_time |-> None]

-----------------------------------------------------------------------------
\* Task manager: state after TaskManager()

\* no query in flight.  Of a query in flight: op is the method, pc its
\* position, id its argument, found whether the lookup found a Task, st the
\* status it read, ret what it returned; expired records whether the task was
\* already past the retention window when the call began (the code keeps no
\* such value: the claims about expired tasks are stated with it)
QIdle == [op |-> "idle", pc |-> "idle", id |-> 0, found |-> FALSE,
          expired |-> FALSE, st |-> None, ret |-> None]

TMInit ==
    /\ now = 0
    /\ heap = <<>>
    /\ tasks = {}
    /\ queue = <<>>
    /\ wpc = <<>>
    /\ exc = <<>>
    /\ q = QIdle
    /\ sweep = [pc |-> "timer", due |-> CleanupInterval, current_time |-> 0]

\* the clock advances
Tick ==
    /\ now < MaxTicks * Retention
    /\ now' = now + Retention
    /\ UNCHANGED <<heap, tasks, queue, wpc, exc, q, sweep>>
    /\ UNCHANGED notTM


-----------------------------------------------------------------------------
\* Task manager: create_task and the worker pool

SetField(t, field, value) == [heap EXCEPT ![t][field] = value]
SetPc(t, pc) == [wpc EXCEPT ![t] = pc]

BusyNever(t) == FALSE

\* _execute_task(t) occupies a pool thread
Busy(t) == wpc[t] \notin {"created", "queued", "done"}
BusyWorkers == {t \in DOMAIN wpc : Busy(t)}

\* create_task, lines 67-78: a fresh id, a PENDING Task, stored under the lock.
\* No line of create_task looks at task_type.
CreateTaskWithin(limit, task_type) ==
    /\ Len(heap) < limit
    /\ heap' = Append(heap, NewTask(task_type, now))
    /\ tasks' = tasks \cup {Len(heap) + 1}
    /\ wpc' = Append(wpc, "created")
    /\ exc' = Append(exc, None)
    /\ UNCHANGED <<now, queue, q, sweep>>
    /\ UNCHANGED notTM

\* the same, for the MaxTasks calls of create_task explored
CreateTask(task_type) == CreateTaskWithin(MaxTasks, task_type)

\* create_task, line 81: self.executor.submit(self._execute_task, task_id)
SubmitTask(t) ==
    /\ t \in DOMAIN wpc
    /\ wpc[t] = "created"
    /\ queue' = Append(queue, t)
    /\ wpc' = SetPc(t, "queued")
    /\ UNCHANGED <<now, heap, tasks, exc, q, sweep>>
    /\ UNCHANGED notTM

\* a pool thread takes the oldest work item and runs _execute_task up to its
\* early return (lines 139-143)
WorkerStart ==
    /\ queue # <<>>
    /\ Cardinality(BusyWorkers) < max_workers
    /\ LET t == Head(queue) IN
         wpc' = SetPc(t, IF t \in tasks THEN "l147" ELSE "done")
    /\ queue' = Tail(queue)
    /\ UNCHANGED <<now, heap, tasks, exc, q, sweep>>
    /\ UNCHANGED notTM

\* started_at and completed_at are written with datetime.now() and never
\* read back by the code except to print them: the model keeps whether one
\* is set, not its value
Stamp == Some("now")

\* one statement of _execute_task: a write of one field of the Task
WorkerWrite(t, at, field, value, next) ==
    /\ t \in DOMAIN wpc
    /\ wpc[t] = at
    /\ heap' = SetField(t, field, value)
    /\ wpc' = SetPc(t, next)
    /\ UNCHANGED <<now, tasks, queue, exc, q, sweep>>
    /\ UNCHANGED notTM

\* line 147
L147(t) == WorkerWrite(t, "l147", "status", RUNNING, "l148")
\* the same, followed by the statement that sets progress_message: only
\* this thread writes that field, and a reader takes it in the same step as
\* the fields next to it, so the two writes are one step
WorkerWrite2(t, at, field, value, message, next) ==
    /\ t \in DOMAIN wpc
    /\ wpc[t] = at
    /\ heap' = [heap EXCEPT ![t][field] = value,
                            ![t].progress_message = message]
    /\ wpc' = SetPc(t, next)
    /\ UNCHANGED <<now, tasks, queue, exc, q, sweep>>
    /\ UNCHANGED notTM

\* lines 148-149 as they would be if started_at stayed None
L148Unset(t) == WorkerWrite2(t, "l148", "started_at", None, "running", "l152")

\* lines 148-149
L148(t) == WorkerWrite2(t, "l148", "started_at", Stamp, "running", "l152")

\* lines 152-161 as they would be with a handler in the else branch
HasHandlerAny(task_type) == TRUE

\* the if/elif chain of lines 152-161 finds a handler for the type
HasHandler(task_type) == task_type \in KnownTypes

\* lines 152-161: a handler is entered and writes its progress message
\* (lines 182, 197, 218, 241), or the else branch raises ValueError
L152(t) ==
    /\ t \in DOMAIN wpc
    /\ wpc[t] = "l152"
    /\ IF HasHandler(heap[t].task_type)
         THEN /\ heap' = SetField(t, "progress_message",
                                  HandlerProgress(heap[t].task_type))
              /\ wpc' = SetPc(t, "scan")
              /\ exc' = exc
         ELSE /\ exc' = [exc EXCEPT ![t] = Some(UnknownTypeMessage(heap[t].task_type))]
              /\ wpc' = SetPc(t, "e171")
              /\ heap' = heap
    /\ UNCHANGED <<now, tasks, queue, q, sweep>>
    /\ UNCHANGED notTM

\* the scan function the handler calls returns its report
ScanReturns(t) ==
    /\ t \in DOMAIN wpc
    /\ wpc[t] = "scan"
    /\ wpc' = SetPc(t, "l164")
    /\ UNCHANGED <<now, heap, tasks, queue, exc, q, sweep>>
    /\ UNCHANGED notTM

\* the scan function the handler calls raises
ScanRaises(t, message) ==
    /\ t \in DOMAIN wpc
    /\ wpc[t] = "scan"
    /\ exc' = [exc EXCEPT ![t] = Some(message)]
    /\ wpc' = SetPc(t, "e171")
    /\ UNCHANGED <<now, heap, tasks, queue, q, sweep>>
    /\ UNCHANGED notTM

\* lines 164-167
L164(t) == WorkerWrite(t, "l164", "status", COMPLETED, "l165")
L165(t) == WorkerWrite(t, "l165", "completed_at", Stamp, "l166")
L166(t) == WorkerWrite2(t, "l166", "result",
                        Some(HandlerResult(heap[t].task_type)), "done", "done")

\* line 173 as it would be with a fixed text for str(e)
ErrorTextGeneric(e) == "task failed"

\* str(e) of the caught exception
ErrorText(e) == e[1]

\* lines 171-174 (the prints of 177-178 change nothing)
E171(t) == WorkerWrite(t, "e171", "status", FAILED, "e172")
E172(t) == WorkerWrite(t, "e172", "completed_at", Stamp, "e173")
E173(t) == WorkerWrite2(t, "e173", "error", Some(ErrorText(exc[t])),
                        "error: " \o ErrorText(exc[t]), "done")

ExecuteTask(t) ==
    \/ L147(t) \/ L148(t) \/ L152(t)
    \/ ScanReturns(t)
    \/ \E message \in ScanErrors : ScanRaises(t, message)
    \/ L164(t) \/ L165(t) \/ L166(t)
    \/ E171(t) \/ E172(t) \/ E173(t)

-----------------------------------------------------------------------------
\* Task manager: get_task_status and get_task_result (one call in flight)

\* the dict get_task_status returns (lines 105-115)
StatusDict(status, task) ==
    [status |-> status,
     started_at |-> task.started_at,
     completed_at |-> task.completed_at,
     progress_message |-> task.progress_message,
     error |-> task.error,
     has_result |-> task.result # None]

\* get_task_status, lines 95-99: the lookup under the lock, and the return of
\* None when the id is not in the table
StatusLookup(id) ==
    /\ q.op = "idle"
    /\ q' = [op |-> "status", pc |-> IF id \in tasks THEN "l102" ELSE "done",
             id |-> id, found |-> id \in tasks,
             expired |-> id \in tasks /\ now - heap[id].created_at > Retention,
             st |-> None, ret |-> None]
    /\ UNCHANGED <<now, heap, tasks, queue, wpc, exc, sweep>>
    /\ UNCHANGED notTM

\* get_task_status, lines 102-103: a task past the retention window is
\* marked EXPIRED in place
StatusL102 ==
    /\ q.op = "status"
    /\ q.pc = "l102"
    /\ heap' = IF IsExpired(now, heap[q.id].created_at)
                 THEN SetField(q.id, "status", EXPIRED)
                 ELSE heap
    /\ q' = [q EXCEPT !.pc = "l108"]
    /\ UNCHANGED <<now, tasks, queue, wpc, exc, sweep>>
    /\ UNCHANGED notTM

\* get_task_status, line 108: task.status.value is read
StatusL108 ==
    /\ q.op = "status"
    /\ q.pc = "l108"
    /\ q' = [q EXCEPT !.st = Some(heap[q.id].status), !.pc = "l110"]
    /\ UNCHANGED <<now, heap, tasks, queue, wpc, exc, sweep>>
    /\ UNCHANGED notTM

\* get_task_status, lines 109-115: the other fields are read and the dict is
\* returned
StatusL110 ==
    /\ q.op = "status"
    /\ q.pc = "l110"
    /\ q' = [q EXCEPT !.ret = Some(StatusDict(q.st[1], heap[q.id])),
                      !.pc = "done"]
    /\ UNCHANGED <<now, heap, tasks, queue, wpc, exc, sweep>>
    /\ UNCHANGED notTM

\* get_task_result, lines 127-128 and the `not task` half of line 130
ResultLookup(id) ==
    /\ q.op = "idle"
    /\ q' = [op |-> "result", pc |-> IF id \in tasks THEN "l130" ELSE "done",
             id |-> id, found |-> id \in tasks,
             expired |-> id \in tasks /\ now - heap[id].created_at > Retention,
             st |-> None, ret |-> None]
    /\ UNCHANGED <<now, heap, tasks, queue, wpc, exc, sweep>>
    /\ UNCHANGED notTM

\* line 130 as it would be without the comparison with COMPLETED
ResultAllowedAny(status) == TRUE

\* line 130: the status that lets get_task_result go on to return task.result
ResultAllowed(status) == status = COMPLETED

\* get_task_result, line 130: task.status is read and compared
ResultL130 ==
    /\ q.op = "result"
    /\ q.pc = "l130"
    /\ q' = [q EXCEPT !.st = Some(heap[q.id].status),
                      !.pc = IF ResultAllowed(heap[q.id].status)
                               THEN "l133" ELSE "done"]
    /\ UNCHANGED <<now, heap, tasks, queue, wpc, exc, sweep>>
    /\ UNCHANGED notTM

\* get_task_result, line 133: task.result is read and returned
ResultL133 ==
    /\ q.op = "result"
    /\ q.pc = "l133"
    /\ q' = [q EXCEPT !.ret = heap[q.id].result, !.pc = "done"]
    /\ UNCHANGED <<now, heap, tasks, queue, wpc, exc, sweep>>
    /\ UNCHANGED notTM

\* the caller has its answer; the next query may start
QueryReturn ==
    /\ q.pc = "done"
    /\ q' = QIdle
    /\ UNCHANGED <<now, heap, tasks, queue, wpc, exc, sweep>>
    /\ UNCHANGED notTM

-----------------------------------------------------------------------------
\* Task manager: get_stats (the call uses the query frame q)

\* `for status in TaskStatus` (line 291) takes the members in the order of
\* their definition, lines 18-24
StatusOrder == <<PENDING, RUNNING, COMPLETED, FAILED, EXPIRED>>

\* lines 292-295: sum(1 for task in self.tasks.values() if task.status == status)
CountStatus(status) == Cardinality({t \in tasks : heap[t].status = status})

\* self.lock is free of get_stats
StatsLockFree == q.op # "stats" \/ q.pc = "done"

\* lines 287-289: the lock is taken, len(self.tasks) is read, status_counts is
\* empty.  old is the number of tasks already past the retention window (the
\* code computes no such value: the claim about expired tasks is stated with it)
GetStatsCall ==
    /\ q.op = "idle"
    /\ q' = [op |-> "stats", pc |-> "l291",
             total_tasks |-> Cardinality(tasks),
             status_counts |-> <<>>,
             old |-> Cardinality({t \in tasks : now - heap[t].created_at > Retention}),
             ret |-> None]
    /\ UNCHANGED <<now, heap, tasks, queue, wpc, exc, sweep>>
    /\ UNCHANGED notTM

\* lines 291-295: one turn of the loop, the count of the tasks whose status is
\* the next member of TaskStatus.  The lock is held, the workers' writes of
\* task.status (lines 147, 164, 171) do not take it
GetStatsCount ==
    /\ q.op = "stats"
    /\ q.pc = "l291"
    /\ LET status == StatusOrder[Len(q.status_counts) + 1] IN
         q' = [q EXCEPT !.status_counts = Append(@, CountStatus(status)),
                        !.pc = IF Len(q.status_counts) + 1 = Len(StatusOrder)
                                 THEN "l297" ELSE "l291"]
    /\ UNCHANGED <<now, heap, tasks, queue, wpc, exc, sweep>>
    /\ UNCHANGED notTM

\* lines 297-304: the lock is released and the dict is returned
\* (executor_info is the pool's configuration)
GetStatsReturn ==
    /\ q.op = "stats"
    /\ q.pc = "l297"
    /\ q' = [q EXCEPT !.ret = Some([total_tasks |-> q.total_tasks,
                                    status_breakdown |->
                                        [n \in 1..Len(StatusOrder) |-> q.status_counts[n]],
                                    executor_info |-> [max_workers |-> max_workers]]),
                      !.pc = "done"]
    /\ UNCHANGED <<now, heap, tasks, queue, wpc, exc, sweep>>
    /\ UNCHANGED notTM

-----------------------------------------------------------------------------
\* Task manager: the sweep, _cleanup_expired_tasks

\* lines 267-270 as they would be with >= for >
ExpiredTaskIdsInclusive(current_time) ==
    {t \in tasks : current_time - heap[t].created_at >= Retention}

\* lines 267-270: the ids the sweep deletes
ExpiredTaskIds(current_time) ==
    {t \in tasks : IsExpired(current_time, heap[t].created_at)}

\* the timer fires; lines 263-264
SweepStart ==
    /\ sweep.pc = "timer"
    /\ now >= sweep.due
    /\ sweep' = [pc |-> "l266", due |-> 0, current_time |-> now]
    /\ UNCHANGED <<now, heap, tasks, queue, wpc, exc, q>>
    /\ UNCHANGED notTM

\* lines 266-273, under the lock, then lines 279-281: the next run is
\* scheduled (the print of line 276 changes nothing)
SweepDelete ==
    /\ sweep.pc = "l266"
    /\ tasks' = tasks \ ExpiredTaskIds(sweep.current_time)
    /\ sweep' = [pc |-> "timer", due |-> now + CleanupInterval, current_time |-> 0]
    /\ UNCHANGED <<now, heap, queue, wpc, exc, q>>
    /\ UNCHANGED notTM

-----------------------------------------------------------------------------
\* Rate limiter: GTIRateLimiter.  Delays and times are in tenths of a second;
\* 0.8 * current_delay is rounded down to a tenth.

\* self.min_delay = 0.5
min_delay == 5
\* self.base_delay = 1.0
base_delay == 10
\* self.max_delay = 10.0
max_delay == 100
\* self.backoff_multiplier = 2
backoff_multiplier == 2

RLThreads == 1..MaxThreads
Callers == 1..MaxCallers

\* time.time() when the limiter is built: the epoch clock is further from
\* last_request_time = 0 than any delay, and max_delay is the least such value
RLStart == max_delay

RLInit ==
    /\ rl = [current_delay |-> base_delay, last_request_time |-> 0]
    /\ rl_lock = 0
    /\ rl_clock = RLStart
    /\ rl_pc = [th \in RLThreads |-> "idle"]
    /\ rl_loc = [th \in RLThreads |-> 0]
    /\ rl_waiting = <<>>

\* time passes, in steps of half a second
RLTick ==
    /\ rl_clock + min_delay <= RLStart + RLHorizon
    /\ rl_clock' = rl_clock + min_delay
    /\ UNCHANGED <<rl, rl_lock, rl_pc, rl_loc, rl_waiting>>
    /\ UNCHANGED notRL

\* `with self.lock:` can be entered by thread th
LockFree(th) == rl_lock = 0

\* wait_if_needed is called and reaches `with self.lock:` (line 45)
WaitCall(th) ==
    /\ rl_pc[th] = "idle"
    /\ rl_pc' = [rl_pc EXCEPT ![th] = "w45"]
    /\ rl_waiting' = Append(rl_waiting, <<th, rl_lock # 0>>)
    /\ UNCHANGED <<rl, rl_lock, rl_clock, rl_loc>>
    /\ UNCHANGED notRL

\* line 45: the lock is acquired
WaitAcquire(th) ==
    /\ rl_pc[th] = "w45"
    /\ LockFree(th)
    /\ rl_lock' = th
    /\ rl_pc' = [rl_pc EXCEPT ![th] = "w46"]
    /\ rl_waiting' = SelectSeq(rl_waiting, LAMBDA other : other[1] # th)
    /\ UNCHANGED <<rl, rl_clock, rl_loc>>
    /\ UNCHANGED notRL

\* lines 49-52 as they would be without the sleep
SleepTimeNone(current_time, last_request_time, current_delay) == 0

\* lines 46-50: sleep_time when a sleep is needed, 0 when not
SleepTime(current_time, last_request_time, current_delay) ==
    IF current_time - last_request_time < current_delay
      THEN current_delay - (current_time - last_request_time)
      ELSE 0

\* lines 46-51: the clock is read and the sleep decided
WaitCheck(th) ==
    /\ rl_pc[th] = "w46"
    /\ LET sleep_time == SleepTime(rl_clock, rl.last_request_time,
                                   rl.current_delay) IN
         /\ rl_loc' = [rl_loc EXCEPT ![th] = sleep_time]
         /\ rl_pc' = [rl_pc EXCEPT ![th] = IF sleep_time > 0 THEN "w52" ELSE "w54"]
    /\ UNCHANGED <<rl, rl_lock, rl_clock, rl_waiting>>
    /\ UNCHANGED notRL

\* line 52: time.sleep(sleep_time), with the lock held, while the clock
\* stays within the horizon explored
WaitSleepWithin(horizon, th) ==
    /\ rl_pc[th] = "w52"
    /\ rl_clock + rl_loc[th] <= RLStart + horizon
    /\ rl_clock' = rl_clock + rl_loc[th]
    /\ rl_loc' = [rl_loc EXCEPT ![th] = 0]
    /\ rl_pc' = [rl_pc EXCEPT ![th] = "w54"]
    /\ UNCHANGED <<rl, rl_lock, rl_waiting>>
    /\ UNCHANGED notRL

\* the same, within the horizon of SpecRL and SpecCall
WaitSleep(th) == WaitSleepWithin(RLHorizon, th)

\* line 54, and the end of the with block: the admission is recorded and the
\* lock released
WaitAdmit(th) ==
    /\ rl_pc[th] = "w54"
    /\ rl' = [rl EXCEPT !.last_request_time = rl_clock]
    /\ rl_lock' = 0
    /\ rl_pc' = [rl_pc EXCEPT ![th] = "idle"]
    /\ UNCHANGED <<rl_clock, rl_loc, rl_waiting>>
    /\ UNCHANGED notRL

\* line 61 as it would be without min(..., max_delay)
IncreasedDelayUnclamped(current_delay) == current_delay * backoff_multiplier

\* line 61: min(current_delay * backoff_multiplier, max_delay)
IncreasedDelay(current_delay) ==
    IF current_delay * backoff_multiplier < max_delay
      THEN current_delay * backoff_multiplier
      ELSE max_delay

\* line 69 as it would be if the delay stopped above base_delay
DecreasedDelayShort(current_delay) ==
    IF (current_delay * 8) \div 10 > base_delay
      THEN (current_delay * 8) \div 10
      ELSE current_delay

\* line 69: max(current_delay * 0.8, base_delay)
DecreasedDelay(current_delay) ==
    IF (current_delay * 8) \div 10 > base_delay
      THEN (current_delay * 8) \div 10
      ELSE base_delay

\* a `with self.lock:` block that only assigns current_delay: entered when
\* the lock is free, and nothing runs inside it
SetDelay(th, delay) ==
    /\ rl_pc[th] = "idle"
    /\ LockFree(th)
    /\ rl' = [rl EXCEPT !.current_delay = delay]
    /\ UNCHANGED <<rl_lock, rl_clock, rl_pc, rl_loc, rl_waiting>>
    /\ UNCHANGED notRL

\* increase_delay, lines 60-62
IncreaseDelay(th) == SetDelay(th, IncreasedDelay(rl.current_delay))
\* decrease_delay, lines 68-69
DecreaseDelay(th) == SetDelay(th, DecreasedDelay(rl.current_delay))
\* reset_delay, lines 75-77
ResetDelay(th) == SetDelay(th, base_delay)

-----------------------------------------------------------------------------
\* Rate limiter: rate_limited_call(func), lines 82-123.  A frame of the call
\* holds the loop variable and, for the properties, how often the call has
\* entered wait_if_needed (waits), invoked func (invoked), called
\* increase_delay (increases) and slept before a retry (sleeps).  Messages of exceptions are sequences of characters.

\* self.retry_attempts = 3
retry_attempts == 3

\* the messages func raises with here: three that line 104 takes for a rate
\* limit (one of them only after lower()) and one that it does not
ErrorInputs ==
    { <<"R", "a", "t", "e">>, <<"q", "u", "o", "t", "a">>,
      <<"L", "i", "m", "i", "t">>, <<"b", "a", "d">> }
\* what func returns when it succeeds
ResultInputs == {"data"}
\* random.uniform(0, 3), in tenths of a second: the two ends
Jitter == {0, 30}

RcIdle == [pc |-> "idle", attempt |-> 0, waits |-> 0, invoked |-> 0,
           increases |-> 0, sleeps |-> 0, e |-> None, result |-> None]

CallInit == rc = [th \in RLThreads |-> RcIdle]

\* str.lower(), for the letters of the messages
LowerChar(c) ==
    CASE c = "R" -> "r"
      [] c = "L" -> "l"
      [] c = "Q" -> "q"
      [] OTHER -> c
Lower(text) == [i \in 1..Len(text) |-> LowerChar(text[i])]

\* `sub in text`
Contains(text, sub) ==
    \E i \in 1..(Len(text) - Len(sub) + 1) :
        SubSeq(text, i, i + Len(sub) - 1) = sub

\* line 104 as it would be with the first test only
IsRateLimitErrorRateOnly(error_str) ==
    Contains(error_str, <<"r", "a", "t", "e">>)

\* line 104 as it would be if every error were taken for a rate limit
IsRateLimitErrorAlways(error_str) == TRUE

\* line 104: "rate" in error_str or "limit" in error_str or "quota" in error_str
IsRateLimitError(error_str) ==
    \/ Contains(error_str, <<"r", "a", "t", "e">>)
    \/ Contains(error_str, <<"l", "i", "m", "i", "t">>)
    \/ Contains(error_str, <<"q", "u", "o", "t", "a">>)

\* line 110 as it would be if no attempt were the last
MoreAttemptsAlways(attempt) == TRUE

\* line 110: attempt < rate_limiter.retry_attempts - 1
MoreAttempts(attempt) == attempt < retry_attempts - 1

\* line 112 without the jitter: (2 ** attempt) * 5 seconds
BackoffTime(attempt) == (2 ^ attempt) * 50

\* rate_limited_call is entered
CallStart(th) ==
    /\ rc[th].pc = "idle"
    /\ rl_pc[th] = "idle"
    /\ rc' = [rc EXCEPT ![th] = [RcIdle EXCEPT !.pc = "c86"]]
    /\ UNCHANGED rlVars
    /\ UNCHANGED notCall

\* line 86, then line 89 up to the `with self.lock:` of wait_if_needed; or
\* the loop is exhausted and line 123 returns None
CallLoop(th) ==
    /\ rc[th].pc = "c86"
    /\ IF rc[th].attempt < retry_attempts
         THEN /\ rc' = [rc EXCEPT ![th].pc = "c89",
                                  ![th].waits = rc[th].waits + 1]
              /\ rl_pc' = [rl_pc EXCEPT ![th] = "w45"]
              /\ rl_waiting' = Append(rl_waiting, <<th, rl_lock # 0>>)
         ELSE /\ rc' = [rc EXCEPT ![th].pc = "returned", ![th].result = None]
              /\ rl_pc' = rl_pc
              /\ rl_waiting' = rl_waiting
    /\ UNCHANGED <<rl, rl_lock, rl_clock, rl_loc>>
    /\ UNCHANGED notCall

\* line 92, func returns: wait_if_needed has returned, func is invoked
CallInvokeReturns(th, value) ==
    /\ rc[th].pc = "c89"
    /\ rl_pc[th] = "idle"
    /\ rc' = [rc EXCEPT ![th].pc = "c95",
                        ![th].invoked = rc[th].invoked + 1,
                        ![th].result = Some(value)]
    /\ UNCHANGED rlVars
    /\ UNCHANGED notCall

\* line 92, func raises
CallInvokeRaises(th, message) ==
    /\ rc[th].pc = "c89"
    /\ rl_pc[th] = "idle"
    /\ rc' = [rc EXCEPT ![th].pc = "c100",
                        ![th].invoked = rc[th].invoked + 1,
                        ![th].e = Some(message)]
    /\ UNCHANGED rlVars
    /\ UNCHANGED notCall

\* lines 95-98: decrease_delay (a `with self.lock:` block) after a success
\* of the first attempt, and the return of the result
CallSuccess(th) ==
    /\ rc[th].pc = "c95"
    /\ IF rc[th].attempt = 0
         THEN /\ LockFree(th)
              /\ rl' = [rl EXCEPT !.current_delay = DecreasedDelay(rl.current_delay)]
         ELSE rl' = rl
    /\ rc' = [rc EXCEPT ![th].pc = "returned"]
    /\ UNCHANGED <<rl_lock, rl_clock, rl_pc, rl_loc, rl_waiting>>
    /\ UNCHANGED notCall

\* lines 100-104 and 119-121: the error is classified; one that is no rate
\* limit is raised again
CallClassify(th) ==
    /\ rc[th].pc = "c100"
    /\ rc' = [rc EXCEPT ![th].pc = IF IsRateLimitError(Lower(rc[th].e[1]))
                                     THEN "c108" ELSE "raised"]
    /\ UNCHANGED rlVars
    /\ UNCHANGED notCall

\* lines 108-110 and 116-118: increase_delay (a `with self.lock:` block),
\* then the last attempt raises the error again
CallIncrease(th) ==
    /\ rc[th].pc = "c108"
    /\ LockFree(th)
    /\ rl' = [rl EXCEPT !.current_delay = IncreasedDelay(rl.current_delay)]
    /\ rc' = [rc EXCEPT ![th].pc = IF MoreAttempts(rc[th].attempt)
                                     THEN "c112" ELSE "raised",
                        ![th].increases = rc[th].increases + 1]
    /\ UNCHANGED <<rl_lock, rl_clock, rl_pc, rl_loc, rl_waiting>>
    /\ UNCHANGED notCall

\* lines 112-115: time.sleep(wait_time), outside the lock, and `continue`
CallBackoff(th, jitter) ==
    /\ rc[th].pc = "c112"
    /\ LET wait_time == BackoffTime(rc[th].attempt) + jitter IN
         /\ rl_clock + wait_time <= RLStart + CallHorizon
         /\ rl_clock' = rl_clock + wait_time
    /\ rc' = [rc EXCEPT ![th].pc = "c86",
                        ![th].attempt = rc[th].attempt + 1,
                        ![th].sleeps = rc[th].sleeps + 1]
    /\ UNCHANGED <<rl, rl_lock, rl_pc, rl_loc, rl_waiting>>
    /\ UNCHANGED notCall

\* the caller has the result or the exception; the frame is dropped
CallEnd(th) ==
    /\ rc[th].pc \in {"returned", "raised"}
    /\ rc' = [rc EXCEPT ![th] = RcIdle]
    /\ UNCHANGED rlVars
    /\ UNCHANGED notCall

-----------------------------------------------------------------------------
\* Cache: GTICacheManager (src/cache_manager.py).  self.cache is a dict: the
\* model keeps its entries as a sequence in the dict's insertion order (an
\* overwritten key keeps its place, a new key goes last), because sorted() is
\* stable and the eviction pass therefore depends on that order.  The class
\* has no lock; a method is one step per access to self.cache.

\* self.enabled = GTIConfig.ENABLE_CACHE (True)
enabled == TRUE

\* the operation names the wrappers of lines 181-231 use
Operations == {"single_stock", "market_scan"}
\* **kwargs as the caller gave them, in the order given: the same two
\* parameters in both orders, and another parameter set
KwargsInputs ==
    { << <<"a", 1>>, <<"b", 2>> >>,
      << <<"b", 2>>, <<"a", 1>> >>,
      << <<"a", 2>> >> }
\* the values stored
DataInputs == {"v1", "v2"}
\* expiry_seconds
TtlInputs == {1}

CacheThreadIds == 1..CacheThreads

\* the order of str for the parameter names in use
NameRank(name) == CASE name = "a" -> 1 [] name = "b" -> 2

\* (name, value) < (name2, value2) for tuples
PairLess(p, r) ==
    \/ NameRank(p[1]) < NameRank(r[1])
    \/ p[1] = r[1] /\ p[2] < r[2]

\* line 36 as it would be without sorted()
UnsortedParams(kwargs) == kwargs

\* line 36: sorted(kwargs.items())
SortedParams(kwargs) ==
    [n \in 1..Len(kwargs) |->
        kwargs[CHOOSE i \in 1..Len(kwargs) :
                 Cardinality({j \in 1..Len(kwargs) :
                                PairLess(kwargs[j], kwargs[i])}) = n - 1]]

\* json.dumps of a list of (name, value) tuples, from its element `from` on
RECURSIVE JsonItems(_, _)
JsonItems(items, from) ==
    IF from > Len(items) THEN ""
    ELSE "[\"" \o items[from][1] \o "\", " \o ToString(items[from][2]) \o "]"
         \o (IF from < Len(items) THEN ", " ELSE "")
         \o JsonItems(items, from + 1)

\* line 37: json.dumps(sorted_params, sort_keys=True)
JsonDumps(items) == "[" \o JsonItems(items, 1) \o "]"

\* line 40-41: hashlib.md5(text.encode()).hexdigest()[:8], for the texts that
\* occur
Md5Hex8(text) ==
    CASE text = "single_stock:[[\"a\", 1], [\"b\", 2]]" -> "703c7195"
      [] text = "single_stock:[[\"b\", 2], [\"a\", 1]]" -> "c245905c"
      [] text = "single_stock:[[\"a\", 2]]" -> "cb82910a"
      [] text = "market_scan:[[\"a\", 1], [\"b\", 2]]" -> "3b4c2b29"
      [] text = "market_scan:[[\"b\", 2], [\"a\", 1]]" -> "47347dee"
      [] text = "market_scan:[[\"a\", 2]]" -> "64fdcde6"

\* _generate_cache_key, lines 36-41
GenerateCacheKey(operation, kwargs) ==
    "gti_" \o operation \o "_"
      \o Md5Hex8(operation \o ":" \o JsonDumps(SortedParams(kwargs)))

\* the dict: keys, lookup, assignment and del
CacheKeys(c) == {c[i].key : i \in 1..Len(c)}
IndexOf(c, key) == CHOOSE i \in 1..Len(c) : c[i].key = key
DictSet(c, entry) ==
    IF entry.key \in CacheKeys(c)
      THEN [c EXCEPT ![IndexOf(c, entry.key)] = entry]
      ELSE Append(c, entry)
DictDel(c, key) ==
    [n \in 1..(Len(c) - 1) |-> IF n < IndexOf(c, key) THEN c[n] ELSE c[n + 1]]

\* the entry set() builds, lines 81-89
NewEntry(key, operation, kwargs, data, expiry_seconds, time) ==
    [key |-> key, data |-> data, created_at |-> time,
     expires_at |-> time + expiry_seconds, last_accessed |-> time,
     hits |-> 0, operation |-> operation, params |-> kwargs]

\* no cache method in progress.  Of one in progress: op is the method, pc its
\* position, operation and kwargs its arguments, ret what it returned, err the
\* exception it raised; the rest are its locals
CfIdle == [op |-> "idle", pc |-> "idle", operation |-> "", kwargs |-> <<>>,
           key |-> "", data |-> "", expires_at |-> 0, ret |-> None,
           err |-> None, current_time |-> 0, iter_len |-> 0,
           expired_keys |-> <<>>, sorted_by_hits |-> <<>>, i |-> 0,
           total_entries |-> 0, expired_entries |-> 0, total_hits |-> 0]

CacheInit ==
    /\ cache = <<>>
    /\ cache_clock = 0
    /\ cf = [th \in CacheThreadIds |-> CfIdle]

\* time passes
CacheTick ==
    /\ cache_clock < MaxCacheClock
    /\ cache_clock' = cache_clock + 1
    /\ UNCHANGED <<cache, cf>>
    /\ UNCHANGED notCache

\* the frame of a method that has ended: its arguments stay for the
\* properties, its locals are gone
Ended(frame) ==
    [CfIdle EXCEPT !.op = frame.op, !.operation = frame.operation,
                   !.kwargs = frame.kwargs, !.key = frame.key,
                   !.data = frame.data, !.expires_at = frame.expires_at]
\* a method returns ret
Returns(th, ret) ==
    [cf EXCEPT ![th] = [Ended(cf[th]) EXCEPT !.pc = "done", !.ret = ret]]
\* a method raises
Raises(th, error) ==
    [cf EXCEPT ![th] = [Ended(cf[th]) EXCEPT !.pc = "raised", !.err = Some(error)]]

\* get, lines 47-52: the key is derived and looked up
GetCall(th, operation, kwargs) ==
    /\ cf[th].pc = "idle"
    /\ LET key == GenerateCacheKey(operation, kwargs) IN
         /\ key \in CacheKeys(cache) =>
              \/ cache[IndexOf(cache, key)].hits < MaxHits
              \/ cache_clock >= cache[IndexOf(cache, key)].expires_at
         /\ cf' = [cf EXCEPT ![th] =
                     [CfIdle EXCEPT !.op = "get", !.operation = operation,
                                    !.kwargs = kwargs, !.key = key,
                                    !.pc = IF ~enabled THEN "done"
                                           ELSE IF key \in CacheKeys(cache)
                                                  THEN "g53" ELSE "done"]]
    /\ UNCHANGED <<cache, cache_clock>>
    /\ UNCHANGED notCache

\* get, lines 53-61: self.cache[cache_key] (KeyError when the key has gone
\* since line 52), the expiry test, and for a hit the update of the entry and
\* the return of its data
G53(th) ==
    /\ cf[th].pc = "g53"
    /\ IF cf[th].key \notin CacheKeys(cache)
         THEN cf' = Raises(th, "KeyError") /\ cache' = cache
         ELSE LET n == IndexOf(cache, cf[th].key) IN
              IF cache_clock < cache[n].expires_at
                THEN /\ cache' = [cache EXCEPT ![n].hits = cache[n].hits + 1,
                                               ![n].last_accessed = cache_clock]
                     /\ cf' = Returns(th, Some(cache[n].data))
                ELSE /\ cache' = cache
                     /\ cf' = [cf EXCEPT ![th].pc = "g64"]
    /\ UNCHANGED cache_clock
    /\ UNCHANGED notCache

\* lines 64-67 as they would be without the del
G64Keep(th) ==
    /\ cf[th].pc = "g64"
    /\ cache' = cache
    /\ cf' = Returns(th, None)
    /\ UNCHANGED cache_clock
    /\ UNCHANGED notCache

\* get, lines 64-67: the expired entry is deleted (KeyError when the key has
\* gone) and None returned
G64(th) ==
    /\ cf[th].pc = "g64"
    /\ IF cf[th].key \notin CacheKeys(cache)
         THEN cf' = Raises(th, "KeyError") /\ cache' = cache
         ELSE cache' = DictDel(cache, cf[th].key) /\ cf' = Returns(th, None)
    /\ UNCHANGED cache_clock
    /\ UNCHANGED notCache

\* set, lines 73-91: the entry is stored under the derived key
SetCall(th, operation, data, expiry_seconds, kwargs) ==
    /\ cf[th].pc = "idle"
    /\ LET key == GenerateCacheKey(operation, kwargs) IN
         IF ~enabled
           THEN /\ cache' = cache
                /\ cf' = [cf EXCEPT ![th] = [CfIdle EXCEPT !.op = "set", !.pc = "done"]]
           ELSE /\ cache' = DictSet(cache, NewEntry(key, operation, kwargs, data,
                                                    expiry_seconds, cache_clock))
                /\ cf' = [cf EXCEPT ![th] =
                            [CfIdle EXCEPT !.op = "set", !.operation = operation,
                                           !.kwargs = kwargs, !.key = key,
                                           !.data = data,
                                           !.expires_at = cache_clock + expiry_seconds,
                                           !.pc = "c100"]]
    /\ UNCHANGED cache_clock
    /\ UNCHANGED notCache

\* GTIConfig.CACHE_EXPIRY_MINUTES
CACHE_EXPIRY_MINUTES == 5
\* line 23: self.default_expiry, in seconds
default_expiry == CACHE_EXPIRY_MINUTES * 60

\* set without expiry_seconds, lines 76-77: the default is taken
SetCallDefault(th, operation, data, kwargs) ==
    SetCall(th, operation, data, default_expiry, kwargs)

\* line 100 as it would be if the size were never too large
NeedsCleanupNever(size) == FALSE

\* line 100: len(self.cache) > 1000
NeedsCleanup(size) == size > HighWater

\* _cleanup_if_needed, lines 100-106: the size test, time.time(), and the
\* list comprehension starts to iterate over self.cache.items()
C100(th) ==
    /\ cf[th].pc = "c100"
    /\ cf' = IF NeedsCleanup(Len(cache))
               THEN [cf EXCEPT ![th].pc = "c106",
                               ![th].current_time = cache_clock,
                               ![th].iter_len = Len(cache)]
               ELSE Returns(th, None)
    /\ UNCHANGED <<cache, cache_clock>>
    /\ UNCHANGED notCache

\* lines 106-109: the keys of the expired entries, in the dict's order
ExpiredKeys(c, current_time) ==
    LET expired == SelectSeq(c, LAMBDA entry : current_time > entry.expires_at)
    IN [n \in 1..Len(expired) |-> expired[n].key]

\* lines 106-109: the iteration ends; it raises RuntimeError (dictionary
\* changed size during iteration) when the size is no longer what it was
C106(th) ==
    /\ cf[th].pc = "c106"
    /\ cf' = IF Len(cache) # cf[th].iter_len
               THEN Raises(th, "RuntimeError")
               ELSE [cf EXCEPT ![th].pc = "c111", ![th].i = 1,
                               ![th].expired_keys =
                                   ExpiredKeys(cache, cf[th].current_time)]
    /\ UNCHANGED <<cache, cache_clock>>
    /\ UNCHANGED notCache

\* lines 111-112: one round of the loop that deletes the expired keys
\* (KeyError when the key has gone), or its end
C111(th) ==
    /\ cf[th].pc = "c111"
    /\ IF cf[th].i > Len(cf[th].expired_keys)
         THEN cf' = [cf EXCEPT ![th].pc = "c115"] /\ cache' = cache
         ELSE LET key == cf[th].expired_keys[cf[th].i] IN
              IF key \notin CacheKeys(cache)
                THEN cf' = Raises(th, "KeyError") /\ cache' = cache
                ELSE /\ cache' = DictDel(cache, key)
                     /\ cf' = [cf EXCEPT ![th].i = cf[th].i + 1]
    /\ UNCHANGED cache_clock
    /\ UNCHANGED notCache

\* the key of line 118: (hits, last_accessed) of one entry before another's
HitsLess(e, f) ==
    \/ e.hits < f.hits
    \/ e.hits = f.hits /\ e.last_accessed < f.last_accessed

\* lines 116-119: sorted(self.cache.items(), key=...), which is stable: the
\* keys of the entries by (hits, last_accessed), equal ones in the dict's order
SortedByHits(c) ==
    [n \in 1..Len(c) |->
        c[CHOOSE i \in 1..Len(c) :
            Cardinality({j \in 1..Len(c) :
                \/ HitsLess(c[j], c[i])
                \/ ~HitsLess(c[i], c[j]) /\ j < i}) = n - 1].key]

\* lines 115-119: the second size test; the eviction pass sorts the entries
C115(th) ==
    /\ cf[th].pc = "c115"
    /\ cf' = IF Len(cache) > LowWater
               THEN [cf EXCEPT ![th].pc = "c122", ![th].i = 1,
                               ![th].sorted_by_hits = SortedByHits(cache)]
               ELSE Returns(th, None)
    /\ UNCHANGED <<cache, cache_clock>>
    /\ UNCHANGED notCache

\* lines 122-123: one round of the loop over sorted_by_hits[:200] (KeyError
\* when the key has gone), or its end and the return of set
C122(th) ==
    /\ cf[th].pc = "c122"
    /\ IF cf[th].i > EvictCount \/ cf[th].i > Len(cf[th].sorted_by_hits)
         THEN cf' = Returns(th, None) /\ cache' = cache
         ELSE LET key == cf[th].sorted_by_hits[cf[th].i] IN
              IF key \notin CacheKeys(cache)
                THEN cf' = Raises(th, "KeyError") /\ cache' = cache
                ELSE /\ cache' = DictDel(cache, key)
                     /\ cf' = [cf EXCEPT ![th].i = cf[th].i + 1]
    /\ UNCHANGED cache_clock
    /\ UNCHANGED notCache

\* invalidate() with no operation, lines 131-137: self.cache.clear()
InvalidateAll(th) ==
    /\ cf[th].pc = "idle"
    /\ cache' = IF enabled THEN <<>> ELSE cache
    /\ cf' = [cf EXCEPT ![th] = [CfIdle EXCEPT !.op = "invalidate", !.pc = "done"]]
    /\ UNCHANGED cache_clock
    /\ UNCHANGED notCache

\* invalidate(operation, **kwargs), lines 131-140: the key is derived and
\* looked up
InvalidateCall(th, operation, kwargs) ==
    /\ cf[th].pc = "idle"
    /\ LET key == GenerateCacheKey(operation, kwargs) IN
         cf' = [cf EXCEPT ![th] =
                  [CfIdle EXCEPT !.op = "invalidate", !.operation = operation,
                                 !.kwargs = kwargs, !.key = key,
                                 !.pc = IF enabled /\ key \in CacheKeys(cache)
                                          THEN "i141" ELSE "done"]]
    /\ UNCHANGED <<cache, cache_clock>>
    /\ UNCHANGED notCache

\* line 141 as it would be if it deleted every entry of the operation
I141Operation(th) ==
    /\ cf[th].pc = "i141"
    /\ cache' = SelectSeq(cache, LAMBDA e : e.operation # cf[th].operation)
    /\ cf' = Returns(th, None)
    /\ UNCHANGED cache_clock
    /\ UNCHANGED notCache

\* invalidate, line 141: del self.cache[cache_key] (KeyError when the key has
\* gone since line 140)
I141(th) ==
    /\ cf[th].pc = "i141"
    /\ IF cf[th].key \notin CacheKeys(cache)
         THEN cf' = Raises(th, "KeyError") /\ cache' = cache
         ELSE cache' = DictDel(cache, cf[th].key) /\ cf' = Returns(th, None)
    /\ UNCHANGED cache_clock
    /\ UNCHANGED notCache

\* get_stats, lines 148-153: time.time(), len(self.cache), and the first
\* generator starts to iterate over self.cache.values()
StatsCall(th) ==
    /\ cf[th].pc = "idle"
    /\ cf' = [cf EXCEPT ![th] =
                IF ~enabled
                  THEN [CfIdle EXCEPT !.op = "get_stats", !.pc = "done"]
                  ELSE [CfIdle EXCEPT !.op = "get_stats", !.pc = "t153",
                                      !.current_time = cache_clock,
                                      !.total_entries = Len(cache),
                                      !.iter_len = Len(cache)]]
    /\ UNCHANGED <<cache, cache_clock>>
    /\ UNCHANGED notCache

\* sum(entry['hits'] for entry in c), from its element `from` on
RECURSIVE SumHits(_, _)
SumHits(c, from) ==
    IF from > Len(c) THEN 0 ELSE c[from].hits + SumHits(c, from + 1)

\* lines 160-166: per operation, the number of entries and the sum of hits
OperationStats(c) ==
    [operation \in {c[i].operation : i \in 1..Len(c)} |->
        LET mine == SelectSeq(c, LAMBDA entry : entry.operation = operation)
        IN [count |-> Len(mine), hits |-> SumHits(mine, 1)]]

\* an iteration over self.cache.values() ends: it has raised RuntimeError
\* when the size is no longer what it was when it began
IterationFails(th) == Len(cache) # cf[th].iter_len

\* lines 153-158: the first iteration ends, expired_entries is set, and the
\* second begins
T153(th) ==
    /\ cf[th].pc = "t153"
    /\ cf' = IF IterationFails(th)
               THEN Raises(th, "RuntimeError")
               ELSE [cf EXCEPT ![th].pc = "t158", ![th].iter_len = Len(cache),
                               ![th].expired_entries =
                                   Len(ExpiredKeys(cache, cf[th].current_time))]
    /\ UNCHANGED <<cache, cache_clock>>
    /\ UNCHANGED notCache

\* lines 158-161: the second iteration ends, total_hits is set, and the
\* third begins
T158(th) ==
    /\ cf[th].pc = "t158"
    /\ cf' = IF IterationFails(th)
               THEN Raises(th, "RuntimeError")
               ELSE [cf EXCEPT ![th].pc = "t161", ![th].iter_len = Len(cache),
                               ![th].total_hits = SumHits(cache, 1)]
    /\ UNCHANGED <<cache, cache_clock>>
    /\ UNCHANGED notCache

\* lines 161-176: the third iteration ends and the dict is returned
T161(th) ==
    /\ cf[th].pc = "t161"
    /\ cf' = IF IterationFails(th)
               THEN Raises(th, "RuntimeError")
               ELSE Returns(th, Some(
                      [cache_enabled |-> TRUE,
                       total_entries |-> cf[th].total_entries,
                       expired_entries |-> cf[th].expired_entries,
                       valid_entries |-> cf[th].total_entries
                                           - cf[th].expired_entries,
                       total_hits |-> cf[th].total_hits,
                       operations |-> OperationStats(cache)]))
    /\ UNCHANGED <<cache, cache_clock>>
    /\ UNCHANGED notCache

\* the caller has the result or the exception; the frame is dropped
CacheReturn(th) ==
    /\ cf[th].pc \in {"done", "raised"}
    /\ cf' = [cf EXCEPT ![th] = CfIdle]
    /\ UNCHANGED <<cache, cache_clock>>
    /\ UNCHANGED notCache

\* what one thread does with the cache, for calls with the given operation
\* names, parameters and values
CacheOp(th, operations, kwargs_inputs, data_inputs) ==
    \/ \E operation \in operations, kwargs \in kwargs_inputs :
         GetCall(th, operation, kwargs)
    \/ G53(th) \/ G64(th)
    \/ \E operation \in operations, kwargs \in kwargs_inputs,
          data \in data_inputs, expiry_seconds \in TtlInputs :
         SetCall(th, operation, data, expiry_seconds, kwargs)
    \/ C100(th)
    \/ InvalidateAll(th)
    \/ \E operation \in operations, kwargs \in kwargs_inputs :
         InvalidateCall(th, operation, kwargs)
    \/ I141(th)
    \/ CacheReturn(th)

\* the steps of the capacity cleanup that set runs into
CleanupOp(th) == C106(th) \/ C111(th) \/ C115(th) \/ C122(th)

\* get_stats
StatsOp(th) == StatsCall(th) \/ T153(th) \/ T158(th) \/ T161(th)

-----------------------------------------------------------------------------
\* Market scan (src/lay_data_stock.py, market_scan_parallel and
\* _process_stock_chunk)

\* seconds per advance of scan_clock
TickSeconds == 10

ENABLE_PROGRESSIVE_TIMEOUT == TRUE
MARKET_SCAN_TIMEOUT == 900
SINGLE_STOCK_TIMEOUT == 30
CHUNK_SIZE_FOR_LARGE_SCANS == 20

Min(a, b) == IF a < b THEN a ELSE b
Max(a, b) == IF a > b THEN a ELSE b

\* the stock lists scanned: item k has the symbol k
StockLists == {[k \in 1..n |-> k] : n \in 0..MaxItems}
\* combined_score of a stock that meets the criteria
Scores == {3, 5}
\* str(e) of an exception raised by the work function
WorkErrors == {"boom"}

\* what scan_single_stock returns for a stock that meets the criteria
ScanResult(stock, combined_score) ==
    [stock |-> stock, combined_score |-> combined_score]

\* a future of the pool: state is "new" before executor.submit, then
\* "queued", "running" and "done"; yielded once as_completed has given it out;
\* started and finished are the times at which the work function was entered
\* and left, where they are kept, and 0 where not (the code keeps neither:
\* the claims about slow items are stated with them)
FutureNew == [state |-> "new", result |-> None, exception |-> None,
              yielded |-> FALSE, started |-> 0, finished |-> 0]

MsIdle == [pc |-> "idle", stock_list |-> <<>>, timeout |-> 0, start_time |-> 0,
           results |-> <<>>, errors |-> <<>>, processed_count |-> 0, i |-> 0,
           chunk_timeouts |-> 0, early_stop |-> FALSE, report |-> None]

ChunkIdle == [pc |-> "idle", lo |-> 0, hi |-> 0, timeout |-> 0, end_time |-> 0,
              results |-> <<>>, errors |-> <<>>, processed |-> 0,
              timed_out |-> FALSE]

ScanInit ==
    /\ ms = MsIdle
    /\ chunk = ChunkIdle
    /\ futures = <<>>
    /\ scan_clock = 0
    /\ first = None

\* time.time(), in seconds
ScanTime == scan_clock * TickSeconds

\* time passes while a scan runs
ScanTick ==
    /\ ms.pc \notin {"idle", "returned"}
    /\ scan_clock < MaxScanTicks
    /\ scan_clock' = scan_clock + 1
    /\ UNCHANGED <<ms, chunk, futures>>
    /\ UNCHANGED <<first, notScan>>

\* lines 988-993, timeout is None
ScanTimeout(n) ==
    IF ENABLE_PROGRESSIVE_TIMEOUT
      THEN Min(Max(60, 10 + n * 5), MARKET_SCAN_TIMEOUT)
      ELSE MARKET_SCAN_TIMEOUT

ChunkTimeoutWhole(timeout) == timeout

\* line 1011
ChunkTimeout(timeout) == Min(timeout \div 3, 300)

EarlyStopNever(elapsed, timeout) == FALSE

\* line 1026: elapsed > timeout * 0.8
EarlyStop(elapsed, timeout) == elapsed * 10 > timeout * 8

\* lines 985-1005: market_scan_parallel(stock_list) with max_workers and
\* timeout left to their defaults
MarketScanCall(stock_list) ==
    /\ ms.pc = "idle"
    /\ ms' = [MsIdle EXCEPT
                !.pc = IF Len(stock_list) > ChunkSize THEN "m1009" ELSE "m1031",
                !.stock_list = stock_list,
                !.timeout = ScanTimeout(Len(stock_list)),
                !.start_time = ScanTime]
    /\ futures' = [k \in 1..Len(stock_list) |-> FutureNew]
    /\ UNCHANGED <<chunk, scan_clock>>
    /\ UNCHANGED <<first, notScan>>

\* lines 1082-1095: _process_stock_chunk is entered for the items lo..hi of
\* stock_list; every item is submitted to a new executor and as_completed
\* starts its timeout
ProcessCall(lo, hi, timeout) ==
    /\ chunk' = [ChunkIdle EXCEPT !.pc = "p1095", !.lo = lo, !.hi = hi,
                                  !.timeout = timeout,
                                  !.end_time = ScanTime + timeout]
    /\ futures' = [k \in DOMAIN futures |->
                     IF k \in lo..hi THEN [futures[k] EXCEPT !.state = "queued"]
                                     ELSE futures[k]]

\* lines 1009-1018: the next chunk is launched, or the loop is over
ChunkLaunch ==
    /\ ms.pc = "m1009"
    /\ IF ms.i < Len(ms.stock_list)
         THEN /\ ProcessCall(ms.i + 1, Min(ms.i + ChunkSize, Len(ms.stock_list)),
                             ChunkTimeout(ms.timeout))
              /\ ms' = [ms EXCEPT !.pc = "m1015"]
         ELSE /\ ms' = [ms EXCEPT !.pc = "m1040"]
              /\ UNCHANGED <<chunk, futures>>
    /\ UNCHANGED scan_clock
    /\ UNCHANGED <<first, notScan>>

\* lines 1031-1034: the whole list goes to one pool
PoolLaunch ==
    /\ ms.pc = "m1031"
    /\ ProcessCall(1, Len(ms.stock_list), ms.timeout)
    /\ ms' = [ms EXCEPT !.pc = "m1034"]
    /\ UNCHANGED scan_clock
    /\ UNCHANGED <<first, notScan>>

Running == {k \in DOMAIN futures : futures[k].state = "running"}

\* a worker thread of the executor takes the oldest queued item; the executor
\* has at most max_workers threads
WorkStartAt(k, time) ==
    /\ k \in DOMAIN futures
    /\ futures[k].state = "queued"
    /\ \A j \in 1..(k - 1) : futures[j].state # "queued"
    /\ Cardinality(Running) < PoolWorkers
    /\ futures' = [futures EXCEPT ![k].state = "running", ![k].started = time]
    /\ UNCHANGED <<ms, chunk, scan_clock>>
    /\ UNCHANGED <<first, notScan>>

\* the same, the time not kept
WorkStart(k) == WorkStartAt(k, 0)

\* scan_single_stock returns a result or None
WorkReturnsAt(k, result, time) ==
    /\ k \in DOMAIN futures
    /\ futures[k].state = "running"
    /\ futures' = [futures EXCEPT ![k].state = "done", ![k].result = result,
                                   ![k].finished = time]
    /\ UNCHANGED <<ms, chunk, scan_clock>>
    /\ UNCHANGED <<first, notScan>>

\* the same, the time not kept
WorkReturns(k, result) == WorkReturnsAt(k, result, 0)

\* the work function raises
WorkRaisesAt(k, e, time) ==
    /\ k \in DOMAIN futures
    /\ futures[k].state = "running"
    /\ futures' = [futures EXCEPT ![k].state = "done", ![k].exception = Some(e),
                                   ![k].finished = time]
    /\ UNCHANGED <<ms, chunk, scan_clock>>
    /\ UNCHANGED <<first, notScan>>

\* the same, the time not kept
WorkRaises(k, e) == WorkRaisesAt(k, e, 0)

AppendResultTwice(results, result) ==
    IF result # None THEN results \o <<result[1], result[1]>> ELSE results

\* lines 1101-1102
AppendResult(results, result) ==
    IF result # None THEN Append(results, result[1]) ELSE results

AppendErrorNone(errors, stock, e) == errors

\* lines 1107-1108: f"{stock}: {str(e)}"
AppendError(errors, stock, e) == Append(errors, <<stock, e>>)

ChunkItems == chunk.lo..chunk.hi

\* lines 1095-1109: as_completed gives out a finished future and the loop
\* body classifies it
Collect(k) ==
    /\ chunk.pc = "p1095"
    /\ k \in ChunkItems
    /\ futures[k].state = "done"
    /\ ~futures[k].yielded
    /\ futures' = [futures EXCEPT ![k].yielded = TRUE]
    /\ chunk' = [chunk EXCEPT
                   !.processed = @ + 1,
                   !.results = IF futures[k].exception = None
                                 THEN AppendResult(@, futures[k].result)
                                 ELSE @,
                   !.errors = IF futures[k].exception = None
                                THEN @
                                ELSE AppendError(@, ms.stock_list[k],
                                                 futures[k].exception[1])]
    /\ UNCHANGED <<ms, scan_clock>>
    /\ UNCHANGED <<first, notScan>>

CollectTimeoutDrop ==
    /\ chunk.pc = "p1095"
    /\ \E k \in ChunkItems : ~futures[k].yielded
    /\ ScanTime >= chunk.end_time
    /\ chunk' = [chunk EXCEPT !.pc = "p1111", !.timed_out = TRUE,
                               !.results = <<>>, !.processed = 0]
    /\ UNCHANGED <<ms, futures, scan_clock>>
    /\ UNCHANGED <<first, notScan>>

\* lines 1095 and 1111-1112: as_completed raises TimeoutError when futures are
\* still to be given out at end_time; the exception leaves the with block,
\* whose exit is executor.shutdown(wait=True)
CollectTimeout ==
    /\ chunk.pc = "p1095"
    /\ \E k \in ChunkItems : ~futures[k].yielded
    /\ ScanTime >= chunk.end_time
    /\ chunk' = [chunk EXCEPT !.pc = "p1111", !.timed_out = TRUE]
    /\ UNCHANGED <<ms, futures, scan_clock>>
    /\ UNCHANGED <<first, notScan>>

PoolShutDownNoWait == chunk.pc \in {"p1095", "p1111"}

\* the with block is left: after the loop every future is done; after a
\* TimeoutError the exit waits until every submitted item has run
PoolShutDown ==
    \/ chunk.pc = "p1095" /\ \A k \in ChunkItems : futures[k].yielded
    \/ chunk.pc = "p1111" /\ \A k \in ChunkItems : futures[k].state = "done"

\* lines 1114-1118, and the caller's lines 1020-1028 (chunked) or 1035-1037
ChunkReturn ==
    /\ PoolShutDown
    /\ IF ms.pc = "m1015"
         THEN LET stop == EarlyStop(ScanTime - ms.start_time, ms.timeout) IN
              ms' = [ms EXCEPT
                       !.results = @ \o chunk.results,
                       !.errors = @ \o chunk.errors,
                       !.processed_count = @ + chunk.processed,
                       !.chunk_timeouts = @ + (IF chunk.timed_out THEN 1 ELSE 0),
                       !.early_stop = stop,
                       !.i = @ + ChunkSize,
                       !.pc = IF stop THEN "m1040" ELSE "m1009"]
         ELSE ms' = [ms EXCEPT
                       !.results = chunk.results,
                       !.errors = chunk.errors,
                       !.processed_count = chunk.processed,
                       !.chunk_timeouts = @ + (IF chunk.timed_out THEN 1 ELSE 0),
                       !.pc = "m1040"]
    /\ chunk' = ChunkIdle
    /\ UNCHANGED <<futures, scan_clock>>
    /\ UNCHANGED <<first, notScan>>

\* the place of results[j] after a stable sort by combined_score, descending
ScoreRank(results, j) ==
    Cardinality({i \in 1..Len(results) :
                   \/ results[i].combined_score > results[j].combined_score
                   \/ /\ results[i].combined_score = results[j].combined_score
                      /\ i <= j})

Unsorted(results) == results

\* line 1040: results.sort(key=lambda x: x['combined_score'], reverse=True)
SortedByScore(results) ==
    [p \in 1..Len(results) |->
       results[CHOOSE j \in 1..Len(results) : ScoreRank(results, j) = p]]

\* lines 1040-1075
MarketScanReturn ==
    /\ ms.pc = "m1040"
    /\ LET results == SortedByScore(ms.results) IN
       ms' = [ms EXCEPT
                !.pc = "returned",
                !.results = results,
                !.report = Some([scan_results |-> results,
                                 total_scanned |-> Len(ms.stock_list),
                                 processed_count |-> ms.processed_count,
                                 success_count |-> Len(results),
                                 qualified_count |-> Len(results),
                                 error_count |-> Len(ms.errors),
                                 timeout_used |-> ms.timeout,
                                 chunked_processing |->
                                     Len(ms.stock_list) > ChunkSize,
                                 errors |-> ms.errors])]
    /\ UNCHANGED <<chunk, futures, scan_clock>>
    /\ UNCHANGED <<first, notScan>>

-----------------------------------------------------------------------------
\* Specifications

\* no thread is in rate_limited_call, in a cache method or in a scan: the
\* components are constructed and have no call frame
NoCall == rc = <<>>
NoCacheCall ==
    /\ cache = <<>>
    /\ cache_clock = 0
    /\ cf = <<>>
NoScan ==
    /\ ms = None
    /\ chunk = None
    /\ futures = <<>>
    /\ scan_clock = 0
    /\ first = None

\* the state after construction, for the callers of the task manager and of
\* the rate limiter's methods
Init == TMInit /\ RLInit /\ NoCall /\ NoCacheCall /\ NoScan
\* ... with threads that may enter rate_limited_call
InitCall == TMInit /\ RLInit /\ CallInit /\ NoCacheCall /\ NoScan
\* ... with threads that may call the cache
InitCache == TMInit /\ RLInit /\ NoCall /\ CacheInit /\ NoScan
\* ... with a thread that may run a market scan
InitScan == TMInit /\ RLInit /\ NoCall /\ NoCacheCall /\ ScanInit

NextTM ==
    \/ Tick
    \/ \E task_type \in TypeInputs : CreateTask(task_type)
    \/ \E t \in TaskIds : SubmitTask(t)
    \/ WorkerStart
    \/ \E t \in TaskIds : ExecuteTask(t)
    \/ \E id \in TaskIds : StatusLookup(id)
    \/ StatusL102 \/ StatusL108 \/ StatusL110
    \/ \E id \in TaskIds : ResultLookup(id)
    \/ ResultL130 \/ ResultL133
    \/ QueryReturn
    \/ SweepStart \/ SweepDelete

SpecTM == Init /\ [][NextTM]_vars

NextRL ==
    \/ RLTick
    \/ \E th \in RLThreads :
         \/ WaitCall(th) \/ WaitAcquire(th) \/ WaitCheck(th)
         \/ WaitSleep(th) \/ WaitAdmit(th)
         \/ IncreaseDelay(th) \/ DecreaseDelay(th) \/ ResetDelay(th)

SpecRL == Init /\ [][NextRL]_vars

\* threads that call rate_limited_call, again and again, and between two
\* calls increase_delay (so that a call may find any delay up to max_delay),
\* while time passes
NextCall ==
    \/ RLTick
    \/ \E th \in Callers :
         \/ rc[th].pc = "idle" /\ IncreaseDelay(th)
         \/ CallStart(th) \/ CallLoop(th)
         \/ WaitAcquire(th) \/ WaitCheck(th) \/ WaitSleep(th) \/ WaitAdmit(th)
         \/ \E value \in ResultInputs : CallInvokeReturns(th, value)
         \/ \E message \in ErrorInputs : CallInvokeRaises(th, message)
         \/ CallSuccess(th) \/ CallClassify(th) \/ CallIncrease(th)
         \/ \E jitter \in Jitter : CallBackoff(th, jitter)
         \/ CallEnd(th)

SpecCall == InitCall /\ [][NextCall]_vars

\* func may raise, and other callers may meet a rate limit
Troubled == rl_clock < RLStart + TroubleTime

\* a step of rate_limited_call in which func returns or nothing is invoked
CallStep(th, horizon) ==
    \/ CallStart(th) \/ CallLoop(th)
    \/ WaitAcquire(th) \/ WaitCheck(th) \/ WaitSleepWithin(horizon, th)
    \/ WaitAdmit(th)
    \/ \E value \in ResultInputs : CallInvokeReturns(th, value)
    \/ CallSuccess(th) \/ CallClassify(th) \/ CallIncrease(th)
    \/ \E jitter \in Jitter : CallBackoff(th, jitter)
    \/ CallEnd(th)

\* the thread that makes the calls
DecayCaller == CHOOSE th \in Callers : \A other \in Callers : th <= other

\* one thread calls rate_limited_call again and again: at first func may
\* raise and the delay may be raised between two calls, from TroubleTime on
\* func returns.  The clock moves with the sleeps only.
NextDecay ==
    \/ Troubled /\ rc[DecayCaller].pc = "idle" /\ IncreaseDelay(DecayCaller)
    \/ Troubled /\ \E message \in ErrorInputs : CallInvokeRaises(DecayCaller, message)
    \/ CallStep(DecayCaller, DecayHorizon)

\* the calling thread keeps running
FairDecay == WF_vars(CallStep(DecayCaller, DecayHorizon))

SpecDecay == InitCall /\ [][NextDecay]_vars /\ FairDecay

\* the parameter sets of KwargsInputs, each in one order
KwargsOnce == { << <<"a", 1>>, <<"b", 2>> >>, << <<"a", 2>> >> }

\* one thread uses the cache for one operation, with the parameters in any
\* order, while time passes: two keys, which is never above HighWater
NextCacheKey ==
    \/ CacheTick
    \/ CacheOp(1, {"single_stock"}, KwargsInputs, DataInputs)

SpecCacheKey == InitCache /\ [][NextCacheKey]_vars

\* one thread uses the cache for both operations, which is more keys than
\* HighWater, while time passes
NextCache ==
    \/ CacheTick
    \/ CacheOp(1, Operations, KwargsOnce, {"v1"})
    \/ CleanupOp(1)
    \/ StatsOp(1)

SpecCache == InitCache /\ [][NextCache]_vars

\* expiry_seconds as a caller may give it: set takes any number
TtlAccepted == {-1, 0, 1}

\* one thread sets entries with any expiry_seconds, or with none, and gets
\* them, for both operations with one parameter set, while time passes
NextCacheTtl ==
    \/ CacheTick
    \/ \E operation \in Operations, kwargs \in KwargsOnce :
         \/ GetCall(1, operation, kwargs)
         \/ \E expiry_seconds \in TtlAccepted :
              SetCall(1, operation, "v1", expiry_seconds, kwargs)
         \/ SetCallDefault(1, operation, "v1", kwargs)
    \/ G53(1) \/ G64(1) \/ C100(1) \/ CleanupOp(1) \/ CacheReturn(1)

SpecCacheTtl == InitCache /\ [][NextCacheTtl]_vars

\* one parameter set: with the two operations, two keys
KwargsOne == { << <<"a", 1>>, <<"b", 2>> >> }

\* several threads use the cache at once, for both operations with one
\* parameter set: two keys, which is never above HighWater, so that set
\* returns at line 100
NextCacheMT ==
    \/ CacheTick
    \/ \E th \in CacheThreadIds :
         \/ CacheOp(th, Operations, KwargsOne, {"v1"})
         \/ StatsOp(th)

SpecCacheMT == InitCache /\ [][NextCacheMT]_vars

\* the caller keeps the report of a scan that no timeout and no early stop
\* cut short, with what the work function gave for each item, and scans the
\* same list again (lines 985-1005)
ScanAgain ==
    /\ ms.pc = "returned"
    /\ first = None
    /\ ms.chunk_timeouts = 0
    /\ ~ms.early_stop
    /\ first' = Some([scan_results |-> ms.report[1].scan_results,
                      outcomes |-> [k \in DOMAIN futures |->
                                      [result |-> futures[k].result,
                                       exception |-> futures[k].exception]]])
    /\ ms' = [MsIdle EXCEPT
                !.pc = IF Len(ms.stock_list) > ChunkSize THEN "m1009" ELSE "m1031",
                !.stock_list = ms.stock_list,
                !.timeout = ScanTimeout(Len(ms.stock_list)),
                !.start_time = ScanTime]
    /\ futures' = [k \in DOMAIN futures |-> FutureNew]
    /\ UNCHANGED <<chunk, scan_clock>>
    /\ UNCHANGED notScan

\* in the second scan the work function gives for item k what it gave in the
\* first
WorkAgain(k) ==
    /\ first # None
    /\ k \in DOMAIN futures
    /\ futures[k].state = "running"
    /\ futures' = [futures EXCEPT
                     ![k].state = "done",
                     ![k].result = first[1].outcomes[k].result,
                     ![k].exception = first[1].outcomes[k].exception]
    /\ UNCHANGED <<ms, chunk, scan_clock, first>>
    /\ UNCHANGED notScan

\* one market scan, its workers and the clock
NextScan ==
    \/ ScanTick
    \/ \E stock_list \in StockLists : MarketScanCall(stock_list)
    \/ ChunkLaunch
    \/ PoolLaunch
    \/ \E k \in 1..MaxItems :
         \/ WorkStart(k)
         \/ \E score \in Scores :
              WorkReturns(k, Some(ScanResult(ms.stock_list[k], score)))
         \/ WorkReturns(k, None)
         \/ \E e \in WorkErrors : WorkRaises(k, e)
         \/ Collect(k)
    \/ CollectTimeout
    \/ ChunkReturn
    \/ MarketScanReturn

SpecScan == InitScan /\ [][NextScan]_vars

\* the stock lists that go to one pool
ShortLists == {stock_list \in StockLists : Len(stock_list) <= ChunkSize}

\* one market scan of a list that goes to one pool, with the times at which
\* the work function is entered and left kept
NextScanTimed ==
    \/ ScanTick
    \/ \E stock_list \in ShortLists : MarketScanCall(stock_list)
    \/ PoolLaunch
    \/ \E k \in 1..MaxItems :
         \/ WorkStartAt(k, ScanTime)
         \/ \E score \in Scores :
              WorkReturnsAt(k, Some(ScanResult(ms.stock_list[k], score)), ScanTime)
         \/ WorkReturnsAt(k, None, ScanTime)
         \/ \E e \in WorkErrors : WorkRaisesAt(k, e, ScanTime)
         \/ Collect(k)
    \/ CollectTimeout
    \/ ChunkReturn
    \/ MarketScanReturn

SpecScanTimed == InitScan /\ [][NextScanTimed]_vars

\* the time budget of market_scan_parallel(stock_list) for a list of n
\* stocks, with timeout left to its default and the configured chunk size:
\* the frame holds n, the timeout, and the timeout handed to the pool
BudgetInit ==
    /\ \E n \in 0..MaxListLen :
         ms = [pc |-> "m988", n |-> n, timeout |-> 0, chunked |-> FALSE,
               pool_timeout |-> 0]
    /\ chunk = None
    /\ futures = <<>>
    /\ scan_clock = 0
    /\ first = None

InitBudget == TMInit /\ RLInit /\ NoCall /\ NoCacheCall /\ BudgetInit

\* lines 988-993
BudgetTimeout ==
    /\ ms.pc = "m988"
    /\ ms' = [ms EXCEPT !.pc = "m1005", !.timeout = ScanTimeout(ms.n)]
    /\ UNCHANGED <<chunk, futures, scan_clock, first, notScan>>

\* lines 1005-1018: every chunk's pool gets chunk_timeout
BudgetChunked ==
    /\ ms.pc = "m1005"
    /\ ms.n > CHUNK_SIZE_FOR_LARGE_SCANS
    /\ ms' = [ms EXCEPT !.pc = "m1015", !.chunked = TRUE,
                         !.pool_timeout = ChunkTimeout(ms.timeout)]
    /\ UNCHANGED <<chunk, futures, scan_clock, first, notScan>>

\* lines 1030-1035: the one pool gets timeout
BudgetWhole ==
    /\ ms.pc = "m1005"
    /\ ~(ms.n > CHUNK_SIZE_FOR_LARGE_SCANS)
    /\ ms' = [ms EXCEPT !.pc = "m1032", !.pool_timeout = ms.timeout]
    /\ UNCHANGED <<chunk, futures, scan_clock, first, notScan>>

NextBudget ==
    \/ BudgetTimeout
    \/ BudgetChunked
    \/ BudgetWhole

SpecBudget == InitBudget /\ [][NextBudget]_vars

\* two market scans of one list, one after the other, in which the work
\* function gives the same outcome for each item and no time passes (so no
\* timeout and no early stop): the scans differ in the order in which the
\* workers start and complete
NextScanTwice ==
    \/ \E stock_list \in StockLists : MarketScanCall(stock_list)
    \/ ChunkLaunch
    \/ PoolLaunch
    \/ \E k \in 1..MaxItems :
         \/ WorkStart(k)
         \/ /\ first = None
            /\ \/ \E score \in Scores :
                    WorkReturns(k, Some(ScanResult(ms.stock_list[k], score)))
               \/ WorkReturns(k, None)
               \/ \E e \in WorkErrors : WorkRaises(k, e)
         \/ WorkAgain(k)
         \/ Collect(k)
    \/ ChunkReturn
    \/ MarketScanReturn
    \/ ScanAgain

SpecScanTwice == InitScan /\ [][NextScanTwice]_vars

\* minutes per advance of the clock where the sweep timer is followed
TickMinutes == 15

\* the end of the time explored
SweepHorizon == MaxSweepTicks * TickMinutes

\* time passes, but not past the moment the cleanup timer is due: the timer
\* thread is scheduled when its interval ends, and its callback takes no
\* time
SweepTick ==
    /\ sweep.pc = "timer"
    /\ now + TickMinutes <= sweep.due
    /\ now + TickMinutes <= SweepHorizon
    /\ now' = now + TickMinutes
    /\ UNCHANGED <<heap, tasks, queue, wpc, exc, q, sweep>>
    /\ UNCHANGED notTM

\* tasks are created, executed by the pool and swept while the timer runs
\* on time; a task is created only as long as the time explored reaches the
\* sweep that is to remove it
NextTasks ==
    \/ SweepTick
    \/ /\ now + Retention + CleanupInterval <= SweepHorizon
       /\ \E task_type \in TypeInputs : CreateTask(task_type)
    \/ \E t \in TaskIds : SubmitTask(t)
    \/ WorkerStart
    \/ \E t \in TaskIds : ExecuteTask(t)
    \/ SweepStart \/ SweepDelete

\* the threads are scheduled fairly: create_task goes on to submit, a free
\* pool thread takes queued work, _execute_task proceeds and its handler
\* terminates (by returning or raising), the timer thread runs, time passes
FairTasks ==
    /\ WF_vars(SweepTick)
    /\ WF_vars(SweepStart)
    /\ WF_vars(SweepDelete)
    /\ WF_vars(WorkerStart)
    /\ \A t \in TaskIds : WF_vars(SubmitTask(t)) /\ WF_vars(ExecuteTask(t))

SpecTasks == Init /\ [][NextTasks]_vars /\ FairTasks

PoolTaskIds == 1..MaxPoolTasks

\* more tasks are created than the pool has threads, and the pool executes
\* them; no time passes and nobody queries
NextPool ==
    \/ CreateTaskWithin(MaxPoolTasks, "top_picks")
    \/ \E t \in PoolTaskIds : SubmitTask(t)
    \/ WorkerStart
    \/ \E t \in PoolTaskIds : ExecuteTask(t)

SpecPool == Init /\ [][NextPool]_vars

StatsTaskIds == 1..MaxStatsTasks

\* get_stats next to create_task and the workers; create_task (line 77) and
\* the lookup of _execute_task (line 139) wait for the lock
NextStats ==
    \/ Tick
    \/ StatsLockFree /\ CreateTaskWithin(MaxStatsTasks, "top_picks")
    \/ \E t \in StatsTaskIds : SubmitTask(t)
    \/ StatsLockFree /\ WorkerStart
    \/ \E t \in StatsTaskIds : ExecuteTask(t)
    \/ GetStatsCall
    \/ GetStatsCount
    \/ GetStatsReturn
    \/ QueryReturn

SpecStats == Init /\ [][NextStats]_vars

-----------------------------------------------------------------------------
\* Properties of the task manager (checked under SpecTM)

\* the task was created more than the retention window before the clock's
\* present value
PastRetention(t) == now - heap[t].created_at > Retention

\* C1 (as claimed): the stored status of a task only moves PENDING->RUNNING,
\* RUNNING->COMPLETED, RUNNING->FAILED, or to EXPIRED once the task is past
\* the retention window; in particular it never leaves EXPIRED.
C1_StatusOnlyMovesForward ==
    [][\A t \in DOMAIN heap :
         heap'[t].status # heap[t].status =>
           \/ heap[t].status = PENDING /\ heap'[t].status = RUNNING
           \/ heap[t].status = RUNNING /\ heap'[t].status \in {COMPLETED, FAILED}
           \/ heap'[t].status = EXPIRED /\ PastRetention(t)]_vars

\* C2: get_task_result returns a result only when its lookup found the task
\* and the status it read was COMPLETED; for an unknown id and for a task it
\* read as PENDING, RUNNING, FAILED or EXPIRED it returns None.
C2_ResultOnlyWhenCompleted ==
    (q.op = "result" /\ q.pc = "done") =>
        /\ q.ret # None => (q.found /\ q.st = Some(COMPLETED))
        /\ ~q.found => q.ret = None
        /\ (q.found /\ q.st # Some(COMPLETED)) => q.ret = None

\* C2, witness: a get_task_result call has returned a result
C2_Witness ==
    /\ q.op = "result" /\ q.pc = "done"
    /\ q.ret # None

\* C3 (as claimed): in every state a reader can observe, a COMPLETED task has
\* its result and a FAILED task has its error.
C3_ResultStoredBeforeStatus ==
    \A t \in DOMAIN heap :
        /\ heap[t].status = COMPLETED => heap[t].result # None
        /\ heap[t].status = FAILED => heap[t].error # None

\* C4 (as claimed): get_task_status called for a task that is in the table
\* and already past the retention window returns status "expired".
C4_ExpiredIsReported ==
    (q.op = "status" /\ q.pc = "done" /\ q.found /\ q.expired) =>
        q.ret[1].status = EXPIRED

\* C5 (as claimed): get_task_result called for a task already past the
\* retention window returns None.
C5_NoResultPastRetention ==
    (q.op = "result" /\ q.pc = "done" /\ q.expired) => q.ret = None

\* C6 (as claimed): no step of get_task_status changes the task table or a
\* field of a Task, and for an unknown id it returns None.
C6_StatusIsReadOnly ==
    /\ [][(q.op = "status" /\ q' # q) => (heap' = heap /\ tasks' = tasks)]_vars
    /\ []((q.op = "status" /\ q.pc = "done" /\ ~q.found) => q.ret = None)

\* C7: a run of the sweep removes from the table exactly the tasks created
\* more than Retention before the time the sweep read, whatever their status,
\* and changes no Task; a removed id never returns to the table, and
\* get_task_status looks ids up in the table and returns None for an id that
\* is not in it.
C7_SweepRemovesExactlyExpired ==
    /\ [][(sweep.pc = "l266" /\ sweep'.pc # "l266") =>
            /\ tasks' = {t \in tasks :
                           ~(sweep.current_time - heap[t].created_at > Retention)}
            /\ heap' = heap]_vars
    /\ [][\A t \in DOMAIN heap : t \notin tasks => t \notin tasks']_vars
    /\ [][(q.op = "idle" /\ q'.op = "status") =>
            (q'.found <=> q'.id \in tasks)]_vars
    /\ []((q.op = "status" /\ q.pc = "done" /\ ~q.found) => q.ret = None)

\* C7, witness: the sweep has removed a task that was RUNNING, and
\* get_task_status for its id has returned None
C7_Witness ==
    /\ sweep.pc = "timer"
    /\ \E t \in DOMAIN heap :
         /\ t \notin tasks
         /\ heap[t].status = RUNNING
         /\ q.op = "status" /\ q.pc = "done" /\ q.id = t /\ q.ret = None

-----------------------------------------------------------------------------
\* Properties of the rate limiter (checked under SpecRL)

\* C10: base_delay <= current_delay <= max_delay in every state; current_delay
\* changes only in a step that finds the lock free and takes it for the
\* whole block, and last_request_time changes only in a step of the thread
\* that holds the lock.
C10_DelayWithinBounds ==
    /\ [](base_delay <= rl.current_delay /\ rl.current_delay <= max_delay)
    /\ [][rl'.current_delay # rl.current_delay => rl_lock = 0]_vars
    /\ [][rl'.last_request_time # rl.last_request_time =>
            (rl_lock # 0 /\ rl_pc[rl_lock] = "w54" /\ rl_pc'[rl_lock] = "idle")]_vars

\* C10, witness: the delay has been raised to max_delay and a thread sleeps
\* in wait_if_needed with the lock held while another thread has arrived
C10_Witness ==
    /\ rl.current_delay = max_delay
    /\ rl_lock # 0
    /\ \E th \in RLThreads : th # rl_lock /\ rl_pc[th] = "w45"

\* C11: every admission of wait_if_needed (the write of line 54) stores the
\* clock's present value in last_request_time, and that value is at least
\* current_delay, as it is at the admission, later than the value stored by
\* the previous admission, for callers that arrive one after another or
\* while another caller holds the lock.
C11_AdmissionsAreSpaced ==
    [][\A th \in RLThreads :
         (rl_pc[th] = "w54" /\ rl_pc'[th] # "w54") =>
            /\ rl'.last_request_time = rl_clock
            /\ rl'.last_request_time - rl.last_request_time >= rl.current_delay]_vars

\* C11, witness: after an earlier admission and a raised delay, a caller
\* that had to sleep is about to be admitted exactly current_delay after the
\* previous one, while another caller waits for the lock
C11_Witness ==
    /\ rl.last_request_time > 0
    /\ rl.current_delay > base_delay
    /\ \E th \in RLThreads :
         /\ rl_pc[th] = "w54"
         /\ rl_clock - rl.last_request_time = rl.current_delay
         /\ \E other \in RLThreads : other # th /\ rl_pc[other] = "w45"

-----------------------------------------------------------------------------
\* Properties of rate_limited_call (checked under SpecCall)

\* the messages among ErrorInputs whose lower-cased text contains "rate",
\* "limit" or "quota", and the one that contains none of them
RateClassMessages ==
    { <<"R", "a", "t", "e">>, <<"q", "u", "o", "t", "a">>,
      <<"L", "i", "m", "i", "t">> }
OtherMessage == <<"b", "a", "d">>

\* C12 (as claimed): when rate_limited_call raises an error that is not of
\* the rate-limit class, func was invoked exactly once in that call, the
\* call slept for no backoff and called no increase_delay.
C12_OtherErrorInvokedOnce ==
    \A th \in RLThreads :
        (rc[th].pc = "raised" /\ rc[th].e = Some(OtherMessage)) =>
            /\ rc[th].invoked = 1
            /\ rc[th].sleeps = 0
            /\ rc[th].increases = 0

\* C12 (amended): an error that is not of the rate-limit class is raised
\* again by the step that classifies it, which changes neither the limiter
\* nor the clock, invokes nothing and sleeps for nothing; the call then ends.
\* Raised by attempt k (from 0), it leaves func invoked k + 1 times with k
\* backoff sleeps and k calls of increase_delay, all of them made for the
\* rate-limit errors of the attempts before: only on the first attempt is func
\* invoked exactly once with no backoff and no change of current_delay.
C12_OtherErrorIsNotRetried ==
    /\ [](\A th \in RLThreads :
            (rc[th].pc = "raised" /\ rc[th].e = Some(OtherMessage)) =>
                /\ rc[th].invoked = rc[th].attempt + 1
                /\ rc[th].sleeps = rc[th].attempt
                /\ rc[th].increases = rc[th].attempt)
    /\ [][\A th \in RLThreads :
            (rc[th].e = Some(OtherMessage) /\ rc'[th] # rc[th]) =>
                \/ /\ rc[th].pc = "c100"
                   /\ rc'[th] = [rc[th] EXCEPT !.pc = "raised"]
                   /\ rl' = rl /\ rl_clock' = rl_clock /\ rl_pc' = rl_pc
                \/ /\ rc[th].pc = "raised"
                   /\ rc'[th].pc = "idle"
                   /\ rl' = rl /\ rl_clock' = rl_clock /\ rl_pc' = rl_pc]_vars

\* C12, witness: the first attempt raised an error that is no rate limit,
\* and the call has raised it with func invoked once
C12_Witness ==
    \E th \in RLThreads :
        /\ rc[th].pc = "raised"
        /\ rc[th].e = Some(OtherMessage)
        /\ rc[th].invoked = 1
        /\ rc[th].sleeps = 0

\* C13: a call invokes func at most 3 times, and each invocation follows a
\* wait_if_needed of its own that has admitted the caller; a call raises a
\* rate-limit error only after 3 invocations, none of which returned, and then
\* it raises the error of the last one; a call that returns, returns the
\* value func returned in its last invocation (never None) and does not
\* invoke func again.
C13_AtMostThreeAttempts ==
    /\ [](\A th \in RLThreads :
            /\ rc[th].invoked <= 3
            /\ rc[th].waits = (IF rc[th].pc = "c89" THEN rc[th].invoked + 1
                                                    ELSE rc[th].invoked)
            /\ rc[th].pc = "returned" =>
                 (rc[th].result # None /\ rc[th].result[1] = "data")
            /\ (rc[th].pc = "raised" /\ rc[th].e[1] \in RateClassMessages) =>
                 (rc[th].invoked = 3 /\ rc[th].result = None)
            /\ rc[th].invoked = 3 => rc[th].pc \in {"c95", "c100", "c108",
                                                    "returned", "raised"})
    /\ [][\A th \in RLThreads :
            \* func is invoked when the wait of this attempt has returned
            /\ (rc'[th].invoked # rc[th].invoked /\ rc'[th].pc # "idle") =>
                 /\ rc[th].pc = "c89" /\ rl_pc[th] = "idle"
                 /\ rc'[th].invoked = rc[th].invoked + 1
                 /\ rc[th].waits = rc'[th].invoked
            \* a wait returns by an admission, and into the attempt it is for
            /\ (rl_pc[th] # "idle" /\ rl_pc'[th] = "idle") =>
                 /\ rl_pc[th] = "w54" /\ rc[th].pc = "c89"
                 /\ rl'.last_request_time = rl_clock
            \* the error raised is the one of the last invocation
            /\ (rc[th].pc # "raised" /\ rc'[th].pc = "raised") =>
                 rc'[th].e = rc[th].e
            /\ rc'[th].e # rc[th].e =>
                 (rc'[th].invoked # rc[th].invoked \/ rc'[th].pc = "idle")
            \* a value func returned is returned by the call
            /\ (rc[th].pc = "c95" /\ rc'[th] # rc[th]) =>
                 rc'[th] = [rc[th] EXCEPT !.pc = "returned"]
            /\ (rc[th].pc = "returned" /\ rc'[th] # rc[th]) =>
                 rc'[th].pc = "idle"]_vars

\* C13, witness: three attempts met a rate limit, and the call has raised
\* the error of the third
C13_Witness ==
    \E th \in RLThreads :
        /\ rc[th].pc = "raised"
        /\ rc[th].e = Some(<<"R", "a", "t", "e">>)
        /\ rc[th].invoked = 3
        /\ rc[th].waits = 3
        /\ rc[th].sleeps = 2

\* C14: every error of the rate-limit class that a call catches, on the last
\* attempt as on the others, takes the call through increase_delay exactly
\* once, and that step sets current_delay to min(2 * current_delay, 100):
\* above its old value when that was below max_delay, max_delay otherwise.
C14_RateLimitRaisesDelay ==
    /\ [](\A th \in RLThreads :
            /\ rc[th].pc \in {"c112", "c86", "c89"} =>
                 rc[th].increases = rc[th].attempt
                   + (IF rc[th].pc = "c112" THEN 1 ELSE 0)
            /\ (rc[th].pc = "raised" /\ rc[th].e[1] \in RateClassMessages) =>
                 rc[th].increases = rc[th].invoked
            /\ rc[th].pc = "c108" => rc[th].increases = rc[th].invoked - 1)
    /\ [][\A th \in RLThreads :
            /\ (rc[th].pc = "c100" /\ rc[th].e[1] \in RateClassMessages
                  /\ rc'[th] # rc[th]) =>
                 rc'[th] = [rc[th] EXCEPT !.pc = "c108"]
            /\ (rc[th].pc = "c108" /\ rc'[th] # rc[th]) =>
                 /\ rc'[th].increases = rc[th].increases + 1
                 /\ rc'[th].pc \in {"c112", "raised"}
                 /\ rl'.current_delay =
                      (IF 2 * rl.current_delay < 100 THEN 2 * rl.current_delay
                                                     ELSE 100)
                 /\ rl.current_delay < 100 => rl'.current_delay > rl.current_delay
                 /\ rl.current_delay = 100 => rl'.current_delay = 100
            /\ rc'[th].increases # rc[th].increases =>
                 (rc[th].pc = "c108" \/ rc'[th].pc \in {"idle", "c86"})]_vars

\* C14, witness: the third attempt met a rate limit too, every attempt has
\* raised the delay, and the last increase found it at max_delay
C14_Witness ==
    \E th \in RLThreads :
        /\ rc[th].pc = "raised"
        /\ rc[th].e = Some(<<"q", "u", "o", "t", "a">>)
        /\ rc[th].increases = 3
        /\ rl.current_delay = max_delay

-----------------------------------------------------------------------------
\* Properties of the cache (checked under SpecCache, SpecCacheKey and
\* SpecCacheMT)

\* the entry stored under key
EntryOf(key) == cache[CHOOSE n \in 1..Len(cache) : cache[n].key = key]

\* two **kwargs with the same (name, value) pairs
SamePairs(kwargs, other) ==
    {kwargs[i] : i \in 1..Len(kwargs)} = {other[i] : i \in 1..Len(other)}

\* C15 (as claimed): when set(operation, value, ttl, params) returns before
\* expires_at, also after the capacity cleanup it ran, the entry it stored is
\* in the cache with that value and that expires_at; and a get that finds an
\* entry under its key returns the entry's value when the clock is before
\* expires_at and a miss when it is at or after it.
C15_GetAfterSetHits ==
    /\ [](\A th \in CacheThreadIds :
            (cf[th].op = "set" /\ cf[th].pc = "done"
               /\ cache_clock < cf[th].expires_at) =>
                \E n \in 1..Len(cache) :
                    /\ cache[n].key = cf[th].key
                    /\ cache[n].data = cf[th].data
                    /\ cache[n].expires_at = cf[th].expires_at)
    /\ [][\A th \in CacheThreadIds :
            (cf[th].pc = "g53" /\ cf'[th] # cf[th]
               /\ cf[th].key \in {cache[n].key : n \in 1..Len(cache)}) =>
                IF cache_clock < EntryOf(cf[th].key).expires_at
                  THEN /\ cf'[th].pc = "done"
                       /\ cf'[th].ret = Some(EntryOf(cf[th].key).data)
                  ELSE /\ cf'[th].pc = "g64"
                       /\ cf'[th].ret = None]_vars
    /\ [][\A th \in CacheThreadIds :
            (cf[th].pc = "g64" /\ cf'[th].pc = "done") => cf'[th].ret = None]_vars

\* C16: get looks up an entry if and only if the cache holds one stored for
\* the same operation with the same (name, value) pairs, in whatever order
\* either call gave them; the cache never holds two entries for one
\* operation and one set of pairs.
C16_KeyIgnoresParameterOrder ==
    /\ [](\A n, m \in 1..Len(cache) :
            (cache[n].operation = cache[m].operation
               /\ SamePairs(cache[n].params, cache[m].params)) => n = m)
    /\ [][\A th \in CacheThreadIds :
            (cf[th].pc = "idle" /\ cf'[th].op = "get") =>
                (cf'[th].pc = "g53" <=>
                   \E n \in 1..Len(cache) :
                       /\ cache[n].operation = cf'[th].operation
                       /\ SamePairs(cache[n].params, cf'[th].kwargs))]_vars

\* C16, witness: a get has returned the value that a set stored with the
\* same parameters in another order
C16_Witness ==
    \E th \in CacheThreadIds :
        /\ cf[th].op = "get" /\ cf[th].pc = "done"
        /\ cf[th].ret = Some("v2")
        /\ \E n \in 1..Len(cache) :
             /\ cache[n].operation = cf[th].operation
             /\ SamePairs(cache[n].params, cf[th].kwargs)
             /\ cache[n].params # cf[th].kwargs

\* C17: with one thread, the cache holds at most HighWater entries whenever
\* no method is in progress (so whenever a set has returned) and never more
\* than HighWater + 1; a set whose eviction pass ran returns with at most
\* HighWater + 1 - EvictCount entries (1000 + 1 - 200 = 801 in the code).
C17_SizeWithinHighWater ==
    /\ []((\A th \in CacheThreadIds : cf[th].pc \in {"idle", "done"}) =>
            Len(cache) <= HighWater)
    /\ [](Len(cache) <= HighWater + 1)
    /\ [][\A th \in CacheThreadIds :
            (cf[th].pc = "c122" /\ cf'[th].pc = "done") =>
                Len(cache') <= HighWater + 1 - EvictCount]_vars

\* C17, witness: a set raised the size above HighWater, nothing had expired,
\* and its eviction pass is about to return with the size brought down
C17_Witness ==
    \E th \in CacheThreadIds :
        /\ cf[th].op = "set" /\ cf[th].pc = "c122"
        /\ cf[th].expired_keys = <<>>
        /\ Len(cf[th].sorted_by_hits) = HighWater + 1
        /\ cf[th].i > EvictCount
        /\ Len(cache) = HighWater + 1 - EvictCount

\* C18 (as claimed): no cache method raises, and the entry table changes
\* only while no other thread is inside a cache method (which is what a lock
\* around every method would give).
C18_SafeUnderConcurrency ==
    /\ [](\A th \in CacheThreadIds : cf[th].pc # "raised")
    /\ [][cache' # cache =>
            \A th \in CacheThreadIds :
                cf'[th] = cf[th] => cf[th].pc \in {"idle", "done", "raised"}]_vars

-----------------------------------------------------------------------------
\* Properties of the market scan (checked under SpecScan)

\* the items whose work function returned a result, and those where it raised
WithResult == {k \in DOMAIN futures : futures[k].result # None}
WithException == {k \in DOMAIN futures : futures[k].exception # None}

\* C19: a scan that returns after no chunk timeout and no early stop has
\* classified every item exactly once: scan_results holds exactly the results
\* of the items whose work function returned one, errors holds exactly one
\* message per item whose work function raised, an item that returned None
\* is in neither, and processed_count is the number of items; collecting an
\* item that raised adds its message, counts it as processed, and leaves the
\* loop, the results and the scan as they were.
C19_EveryItemClassifiedOnce ==
    /\ []((ms.pc = "returned" /\ ms.chunk_timeouts = 0 /\ ~ms.early_stop) =>
            LET report == ms.report[1] IN
              /\ \A k \in DOMAIN futures : futures[k].state = "done"
              /\ Len(report.scan_results) = Cardinality(WithResult)
              /\ \A k \in WithResult :
                   \E j \in 1..Len(report.scan_results) :
                       report.scan_results[j] = futures[k].result[1]
              /\ Len(report.errors) = Cardinality(WithException)
              /\ \A k \in WithException :
                   \E j \in 1..Len(report.errors) :
                       report.errors[j] =
                           <<ms.stock_list[k], futures[k].exception[1]>>
              /\ report.success_count = Cardinality(WithResult)
              /\ report.error_count = Cardinality(WithException)
              /\ report.processed_count = Len(ms.stock_list)
              /\ report.total_scanned = Len(ms.stock_list))
    /\ [][\A k \in DOMAIN futures :
            (futures[k].exception # None /\ ~futures[k].yielded
               /\ futures'[k].yielded) =>
                /\ chunk'.pc = "p1095"
                /\ chunk'.results = chunk.results
                /\ chunk'.processed = chunk.processed + 1
                /\ Len(chunk'.errors) = Len(chunk.errors) + 1
                /\ ms' = ms
                /\ \A j \in DOMAIN futures : j # k => futures'[j] = futures[j]]_vars

\* C19, witness: a scan of three items returned without chunk timeout or
\* early stop; one item gave a result, one gave None and one raised
C19_Witness ==
    /\ ms.pc = "returned" /\ ms.chunk_timeouts = 0 /\ ~ms.early_stop
    /\ Len(ms.stock_list) = 3
    /\ Cardinality(WithResult) = 1
    /\ Cardinality(WithException) = 1
    /\ ms.report[1].processed_count = 3

\* C20: in the report that market_scan_parallel returns, scan_results is
\* sorted by combined_score in non-increasing order.
C20_ReportIsSortedByScore ==
    ms.pc = "returned" =>
        /\ ms.report # None
        /\ LET scan_results == ms.report[1].scan_results IN
           \A i, j \in 1..Len(scan_results) :
               i < j => scan_results[i].combined_score
                            >= scan_results[j].combined_score

\* C20, witness: a chunked scan returned three results, first the one of the
\* last chunk's item, which was collected last
C20_Witness ==
    /\ ms.pc = "returned"
    /\ ms.report[1].chunked_processing
    /\ Len(ms.report[1].scan_results) = 3
    /\ ms.report[1].scan_results[1].stock = 3
    /\ ms.report[1].scan_results[3].combined_score
           < ms.report[1].scan_results[1].combined_score

\* C21 (as claimed): a second scan of the same items, in which the work
\* function gives the same outcomes and only the order of completion may
\* differ, returns the same scan_results sequence as the first.
C21_SameOutcomesSameOrder ==
    (ms.pc = "returned" /\ first # None) =>
        ms.report[1].scan_results = first[1].scan_results

\* the items that as_completed has given out
Yielded == {k \in DOMAIN futures : futures[k].yielded}

\* C22: in every report, whatever failed, timed out or was skipped,
\* len(scan_results) + error_count <= processed_count <= total_scanned, with
\* total_scanned the length of the input list; processed_count is the number
\* of items that were collected, each counted once (a step that counts an
\* item counts one item that had not been collected before).
C22_CountsAreOrdered ==
    /\ [](ms.pc = "returned" =>
            LET report == ms.report[1] IN
              /\ report.total_scanned = Len(ms.stock_list)
              /\ Len(report.scan_results) + report.error_count
                     <= report.processed_count
              /\ report.processed_count <= report.total_scanned
              /\ report.error_count = Len(report.errors)
              /\ report.processed_count = Cardinality(Yielded))
    /\ [](chunk # None =>
            /\ Len(chunk.results) + Len(chunk.errors) <= chunk.processed
            /\ chunk.processed <= Cardinality(Yielded))
    /\ [][(chunk # None /\ chunk'.processed > chunk.processed) =>
            /\ chunk'.processed = chunk.processed + 1
            /\ \E k \in DOMAIN futures :
                 /\ ~futures[k].yielded
                 /\ Yielded' = Yielded \cup {k}]_vars

\* C22, witness: a report after a chunk timeout and an early stop, with
\* fewer items processed than scanned and an item that gave None among them
C22_Witness ==
    /\ ms.pc = "returned"
    /\ ms.chunk_timeouts > 0
    /\ ms.early_stop
    /\ ms.report[1].processed_count < ms.report[1].total_scanned
    /\ ms.report[1].processed_count > 0
    /\ Len(ms.report[1].scan_results) + ms.report[1].error_count
           < ms.report[1].processed_count

\* the items of the chunks launched so far
Launched == {k \in DOMAIN futures : futures[k].state # "new"}

\* C23: in chunked mode, when a chunk has returned the loop goes on to the
\* next chunk unless more than 80% of the aggregate timeout has elapsed since
\* the start, and then it leaves the loop; after that no item is submitted
\* any more and the next step of the scan returns a report, in which
\* processed_count counts only items of launched chunks and is below
\* total_scanned when a chunk was skipped.
C23_EarlyStopAtEightyPercent ==
    /\ [][(ms.pc = "m1015" /\ ms'.pc # "m1015") =>
            /\ ms'.pc = IF (ScanTime - ms.start_time) * 10 > ms.timeout * 8
                          THEN "m1040" ELSE "m1009"
            /\ ms'.early_stop = (ms'.pc = "m1040")]_vars
    /\ [][(ms # None /\ ms.early_stop) =>
            /\ Launched' = Launched
            /\ ms' # ms => (ms'.pc = "returned" /\ ms'.report # None)]_vars
    /\ []((ms.pc = "returned" /\ ms.early_stop) =>
            LET report == ms.report[1] IN
              /\ report.chunked_processing
              /\ Yielded \subseteq Launched
              /\ report.processed_count <= Cardinality(Launched)
              /\ Launched # DOMAIN futures =>
                     report.processed_count < report.total_scanned)

\* C23, witness: the scan stopped early with a chunk not launched and
\* returned its report
C23_Witness ==
    /\ ms.pc = "returned"
    /\ ms.early_stop
    /\ \E k \in DOMAIN futures : futures[k].state = "new"
    /\ ms.report[1].processed_count > 0
    /\ ms.report[1].processed_count < ms.report[1].total_scanned

-----------------------------------------------------------------------------
\* Properties of the sweep timer and of the pool under fair scheduling
\* (checked under SpecTasks)

C26_TasksEventuallyFinish ==
    /\ \A t \in TaskIds :
         (t \in DOMAIN heap) ~>
             (/\ t \in DOMAIN heap
              /\ \/ heap[t].status \in {COMPLETED, FAILED}
                 \/ /\ wpc[t] = "done"
                    /\ t \notin tasks
                    /\ heap[t] = NewTask(heap[t].task_type, heap[t].created_at))
    /\ [][\A t \in DOMAIN heap :
            (heap'[t].status # heap[t].status
               /\ heap'[t].status \in {COMPLETED, FAILED}) =>
                \/ wpc[t] = "l164" /\ heap'[t].status = COMPLETED
                \/ wpc[t] = "e171" /\ heap'[t].status = FAILED]_vars
    /\ [][\A t \in DOMAIN heap :
            (wpc[t] = "queued" /\ wpc'[t] = "done") => t \notin tasks]_vars

\* C26, witness: a task's worker has run to its end and stored COMPLETED
\* and the result
C26_Witness ==
    \E t \in DOMAIN heap :
        /\ wpc[t] = "done"
        /\ heap[t].status = COMPLETED
        /\ heap[t].result # None

-----------------------------------------------------------------------------
\* Properties of the worker pool (checked under SpecPool)

\* the tasks whose _execute_task a pool thread is running
Executing == {t \in DOMAIN wpc : wpc[t] \notin {"created", "queued", "done"}}

\* C25: create_task submits a task that is already in the table as PENDING,
\* and the submit is possible whatever the pool is doing (it waits for
\* nothing) and changes no Task; at most 3 tasks are being executed at any
\* moment; a submitted task that no thread has taken is in the queue and
\* PENDING, and it is taken from the head of the queue only when fewer than
\* 3 tasks are being executed.
C25_PoolIsBounded ==
    /\ [](Cardinality(Executing) <= 3)
    /\ [](\A t \in DOMAIN wpc :
            /\ wpc[t] \in {"created", "queued"} =>
                   (t \in tasks /\ heap[t].status = PENDING)
            /\ wpc[t] = "created" => ENABLED SubmitTask(t)
            /\ wpc[t] = "queued" => \E n \in 1..Len(queue) : queue[n] = t)
    /\ [][\A t \in DOMAIN wpc :
            (wpc[t] = "created" /\ wpc'[t] # "created") =>
                /\ wpc'[t] = "queued"
                /\ queue' = Append(queue, t)
                /\ heap' = heap]_vars
    /\ [][\A t \in DOMAIN wpc :
            (wpc[t] = "queued" /\ wpc'[t] # "queued") =>
                /\ t = Head(queue)
                /\ Cardinality(Executing) < 3]_vars

\* C25, witness: three tasks are being executed and a fourth, submitted, is
\* in the queue and PENDING
C25_Witness ==
    /\ Cardinality(Executing) = 3
    /\ \E t \in DOMAIN wpc :
         /\ wpc[t] = "queued"
         /\ heap[t].status = PENDING
         /\ queue = <<t>>


\* the sum of the counts of a returned status_breakdown
RECURSIVE SumCounts(_, _)
SumCounts(counts, n) == IF n = 0 THEN 0 ELSE counts[n] + SumCounts(counts, n - 1)

\* get_stats has returned
StatsReturned == q.op = "stats" /\ q.pc = "done"

\* C27: in every call of get_stats the counts of status_breakdown sum to
\* total_tasks, and every task past the retention window is counted under
\* 'expired'
C27_StatsAreConsistent ==
    StatsReturned =>
        /\ SumCounts(q.ret[1].status_breakdown, Len(StatusOrder)) = q.ret[1].total_tasks
        /\ q.ret[1].status_breakdown[Len(StatusOrder)] >= q.old


\* C28: of every task, result and error are never both set, started_at is
\* set whenever completed_at is set, and a task still PENDING has started_at,
\* completed_at, result and error all None
C28_TaskFieldsAreCoherent ==
    \A t \in DOMAIN heap :
        /\ heap[t].result # None => heap[t].error = None
        /\ heap[t].error # None => heap[t].result = None
        /\ heap[t].completed_at # None => heap[t].started_at # None
        /\ heap[t].status = PENDING =>
             /\ heap[t].started_at = None
             /\ heap[t].completed_at = None
             /\ heap[t].result = None
             /\ heap[t].error = None

\* C28, witness: a worker has stored a result, after both timestamps
C28_Witness ==
    \E t \in DOMAIN heap :
        /\ heap[t].result # None
        /\ heap[t].completed_at # None
        /\ heap[t].started_at # None


\* thread th leaves `with self.lock:` of wait_if_needed: it is admitted
Admitted(th) == rl_pc[th] = "w54" /\ rl_pc'[th] = "idle"

\* thread th enters `with self.lock:` of wait_if_needed
Entered(th) == rl_pc[th] = "w45" /\ rl_pc'[th] = "w46"

\* the place of thread th among the threads at the lock
Place(th) == CHOOSE n \in 1..Len(rl_waiting) : rl_waiting[n][1] = th

\* C29: one caller is released per delay interval, and the callers of
\* wait_if_needed are admitted in the order in which they reached the lock:
\* no thread enters while a thread that got to the lock before it, and found
\* it held, still waits
C29_FirstComeFirstAdmitted ==
    [][\A th \in RLThreads :
         /\ Admitted(th) => rl_clock - rl.last_request_time >= rl.current_delay
         /\ Entered(th) =>
              \A n \in 1..Len(rl_waiting) :
                  (n < Place(th)) => ~rl_waiting[n][2]]_vars


\* rate_limited_call of thread th returns func's result (lines 95-98)
Succeeds(th) == rc[th].pc = "c95" /\ rc'[th].pc = "returned"

\* C30: a success of the first attempt sets current_delay to
\* max(0.8 * current_delay, base_delay), which is below the old value unless
\* that was base_delay; a success of a later attempt leaves the delay as it
\* is; nothing else lowers the delay; and once func fails no more, the calls
\* bring current_delay to base_delay and leave it there
C30_DelayDecaysToBase ==
    /\ [][\A th \in Callers :
            Succeeds(th) =>
                IF rc[th].attempt = 0
                  THEN /\ rl'.current_delay =
                            Max((rl.current_delay * 8) \div 10, base_delay)
                       /\ rl.current_delay > base_delay =>
                            rl'.current_delay < rl.current_delay
                       /\ rl.current_delay = base_delay =>
                            rl'.current_delay = base_delay
                  ELSE rl'.current_delay = rl.current_delay]_vars
    /\ [][rl'.current_delay < rl.current_delay =>
            \E th \in Callers : Succeeds(th) /\ rc[th].attempt = 0]_vars
    /\ <>[](rl.current_delay = base_delay)

\* C30, witness: a run of first-attempt successes has brought the delay
\* from max_delay down to the last value above base_delay
C30_Witness ==
    \E th \in Callers :
        /\ rc[th].pc = "returned"
        /\ rc[th].attempt = 0
        /\ ~Troubled
        /\ rl.current_delay = 12


-----------------------------------------------------------------------------
\* Properties of the cache: expiry, hit counters and invalidation

\* the eviction pass of thread th deletes an entry in this step
Evicts(th) ==
    /\ cf[th].pc = "c122"
    /\ cf[th].i <= EvictCount /\ cf[th].i <= Len(cf[th].sorted_by_hits)
    /\ cf[th].sorted_by_hits[cf[th].i] \in CacheKeys(cache)
    /\ Len(cache') < Len(cache)

\* the keys the eviction pass of thread th deletes after this step
StillToEvict(th) ==
    {cf[th].sorted_by_hits[n] :
        n \in {m \in 1..Len(cf[th].sorted_by_hits) :
                 m > cf[th].i /\ m <= EvictCount}}

\* C31: when a capacity cleanup evicts an entry that a get at that instant
\* would still return (now < expires_at), no entry that a get at that instant
\* treats as expired (now >= expires_at) is left in the cache by the cleanup
C31_NoExpiredKeptOverValid ==
    [][\A th \in CacheThreadIds :
         (Evicts(th)
            /\ cache_clock < EntryOf(cf[th].sorted_by_hits[cf[th].i]).expires_at) =>
             \A n \in 1..Len(cache') :
                 cache'[n].key \notin StillToEvict(th) =>
                     cache_clock < cache'[n].expires_at]_vars


\* entry e, but for its hit counter and its last access
SaveHits(e) == [e EXCEPT !.hits = 0, !.last_accessed = 0]

\* the entries of c other than the one under key, in their order
Others(c, key) == SelectSeq(c, LAMBDA e : e.key # key)

\* C32: a get whose key is absent changes nothing and returns a miss; a get
\* that finds its key with now < expires_at adds 1 to the entry's hits, sets
\* its last_accessed to now, returns its data and changes nothing else; a get
\* that finds its key with now >= expires_at removes that entry, returns a
\* miss and changes no other entry
C32_LazyExpiry ==
    [][\A th \in CacheThreadIds :
         /\ (cf[th].pc = "idle" /\ cf'[th].op = "get" /\ cf'[th].pc # "idle") =>
              /\ cache' = cache
              /\ cf'[th].key \notin CacheKeys(cache) =>
                   (cf'[th].pc = "done" /\ cf'[th].ret = None)
              /\ cf'[th].key \in CacheKeys(cache) => cf'[th].pc = "g53"
         /\ (cf[th].op = "get" /\ cf[th].pc = "g53" /\ cf'[th] # cf[th]) =>
              LET old == EntryOf(cf[th].key) IN
              IF cache_clock < old.expires_at
                THEN /\ cf'[th].pc = "done" /\ cf'[th].ret = Some(old.data)
                     /\ Len(cache') = Len(cache)
                     /\ \A n \in 1..Len(cache) :
                          IF cache[n].key = cf[th].key
                            THEN /\ cache'[n].hits = cache[n].hits + 1
                                 /\ cache'[n].last_accessed = cache_clock
                                 /\ SaveHits(cache'[n]) = SaveHits(cache[n])
                            ELSE cache'[n] = cache[n]
                ELSE cf'[th].pc = "g64" /\ cache' = cache
         /\ (cf[th].op = "get" /\ cf[th].pc = "g64" /\ cf'[th] # cf[th]) =>
              /\ cf'[th].pc = "done" /\ cf'[th].ret = None
              /\ cf[th].key \notin CacheKeys(cache')
              /\ cache' = Others(cache, cf[th].key)]_vars

\* C32, witness: a get has found its key expired, next to another entry, and
\* is about to delete it
C32_Witness ==
    \E th \in CacheThreadIds :
        /\ cf[th].op = "get" /\ cf[th].pc = "g64"
        /\ cf[th].key \in CacheKeys(cache)
        /\ cache_clock >= EntryOf(cf[th].key).expires_at
        /\ Len(cache) > 1


\* C33: while an entry stays under a key, from the set that stores it to its
\* removal, its hit counter never decreases, also when a set overwrites it
C33_HitsNeverDecrease ==
    [][\A key \in CacheKeys(cache) \cap CacheKeys(cache') :
         cache'[IndexOf(cache', key)].hits >= cache[IndexOf(cache, key)].hits]_vars


\* C34: every entry in the cache has expires_at > created_at, whatever
\* expiry_seconds its set was given
C34_ExpiresAfterCreated ==
    \A n \in 1..Len(cache) : cache[n].expires_at > cache[n].created_at


-----------------------------------------------------------------------------
\* Properties of the market scan: slow items, pool timeout and time budget

\* the items whose work function took longer than the single-item timeout
\* to give its outcome
SlowItems ==
    {k \in DOMAIN futures :
        /\ futures[k].state = "done"
        /\ futures[k].finished - futures[k].started > SINGLE_STOCK_TIMEOUT}

\* the results and the errors the scan holds: those of the chunk in progress
\* and those of the chunks that returned
ResultsHeld == ms.results \o chunk.results
ErrorsHeld == ms.errors \o chunk.errors

\* C36 (as claimed): an item whose work function gave no outcome within
\* SINGLE_STOCK_TIMEOUT is, once it is collected, in the error list and not
\* in the results.
C36_SlowItemIsAnError ==
    \A k \in SlowItems :
        futures[k].yielded =>
            /\ \E j \in 1..Len(ErrorsHeld) : ErrorsHeld[j][1] = ms.stock_list[k]
            /\ \A j \in 1..Len(ResultsHeld) :
                   ResultsHeld[j].stock # ms.stock_list[k]

\* is results in non-increasing order of combined_score
ScoresDescend(results) ==
    \A i, j \in 1..Len(results) :
        i < j => results[i].combined_score >= results[j].combined_score

\* C37: when the pool timeout fires on a chunk, what was collected before
\* it is kept; an item of the chunk that finishes afterwards changes none of
\* results, errors and processed; _process_stock_chunk returns them to its
\* caller, which adds them to the scan's, counts the timeout and goes on to
\* the next chunk or, at an early stop or at the end, to the report; the
\* report of a scan with a chunk timeout is sorted and holds no more than
\* was collected.
C37_PoolTimeoutKeepsCollected ==
    /\ [][ /\ (chunk.pc = "p1095" /\ chunk'.pc = "p1111") =>
               /\ chunk'.timed_out
               /\ chunk'.results = chunk.results
               /\ chunk'.errors = chunk.errors
               /\ chunk'.processed = chunk.processed
               /\ ms' = ms
           /\ (chunk.pc = "p1111" /\ futures' # futures) =>
               (chunk' = chunk /\ ms' = ms)
           /\ (chunk.pc = "p1111" /\ chunk'.pc # "p1111") =>
               /\ chunk'.pc = "idle"
               /\ ms'.results = ms.results \o chunk.results
               /\ ms'.errors = ms.errors \o chunk.errors
               /\ ms'.processed_count = ms.processed_count + chunk.processed
               /\ ms'.chunk_timeouts = ms.chunk_timeouts + 1
               /\ ms'.pc \in {"m1009", "m1040"}
               /\ ((ms.pc = "m1015" /\ ms'.pc = "m1040") => ms'.early_stop)]_vars
    /\ []((ms.pc = "returned" /\ ms.chunk_timeouts > 0) =>
            LET report == ms.report[1] IN
              /\ ScoresDescend(report.scan_results)
              /\ report.processed_count = Cardinality(Yielded)
              /\ Len(report.scan_results) + report.error_count
                     <= Cardinality(Yielded))

\* C37, witness: a scan returned its report after a chunk timeout; an item
\* that gave a result was collected before the timeout, and another, which
\* gave a result too, never was
C37_Witness ==
    /\ ms.pc = "returned" /\ ms.chunk_timeouts > 0
    /\ Len(ms.report[1].scan_results) > 0
    /\ \E k \in DOMAIN futures : ~futures[k].yielded /\ futures[k].result # None

\* the chunk of item k: chunks are counted from 0
ChunkOf(k) == (k - 1) \div ChunkSize

C39_ReturnsWithoutWaiting ==
    chunk.pc = "p1111" => ENABLED ChunkReturn

====
